---- MODULE Spec2Model ----
(***************************************************************************)
(* Scene-plan canonicalization and validation engine of                    *)
(* stem_3d_visualizer.                                                     *)
(*                                                                         *)
(* Two implementations are modelled side by side:                          *)
(*   - the TypeScript engine  src/schemas/schemaRegistry.ts                *)
(*     (getSchema / validateScenePlan) with the per-concept schema modules *)
(*     (normalize / validateStructure / contracts);                        *)
(*   - the plain-JS mirror    src/backend/api/exportTrainingData.js        *)
(*     (validateScenePlanPayload) that the HTTP endpoint and the agent     *)
(*     tool call.                                                          *)
(*                                                                         *)
(* JavaScript values are tagged records.  Finite numbers are exact         *)
(* rationals n/d (the value pools stay far away from the range where       *)
(* IEEE-754 rounding or overflow would matter); NaN and +/-Infinity are    *)
(* separate tags.  Objects are key/value sequences in insertion order,     *)
(* because Object.keys order decides which normalization error is thrown.  *)
(* Error messages are records [kind, key, via, keys, wrap] instead of       *)
(* strings.                                                                *)
(***************************************************************************)
EXTENDS Integers, Sequences, FiniteSets, TLC

(***************************************************************************)
(* JavaScript values                                                       *)
(***************************************************************************)
RECURSIVE Gcd(_, _)
Gcd(a, b) == IF b = 0 THEN a ELSE Gcd(b, a % b)

Abs(x) == IF x < 0 THEN -x ELSE x

Undef == [t |-> "undef"]
Null  == [t |-> "null"]
NaN   == [t |-> "nan"]
PInf  == [t |-> "inf"]
NInf  == [t |-> "ninf"]
Str(s)  == [t |-> "str", s |-> s]
Bool(b) == [t |-> "bool", b |-> b]
Obj(o)  == [t |-> "obj", o |-> o]
Arr(a)  == [t |-> "arr", a |-> a]
\* a function object or another host object found on Object.prototype
Host(s) == [t |-> "host", s |-> s]

\* the finite number n/d in lowest terms, d > 0
Rat(n, d) ==
  LET g == Gcd(Abs(n), Abs(d))
      sg == IF d < 0 THEN -1 ELSE 1
  IN [t |-> "num", n |-> sg * (n \div g), d |-> sg * (d \div g)]
Num(n) == [t |-> "num", n |-> n, d |-> 1]

IsNumberType(v) == v.t \in {"num", "nan", "inf", "ninf"}
IsFinite(v) == v.t = "num"
IsString(v) == v.t = "str"
IsObjectType(v) == v.t \in {"obj", "arr", "null"}

\* sign of an extended number: -1, 0, 1 (NaN excluded by the callers)
Sign(v) ==
  CASE v.t = "inf" -> 1
    [] v.t = "ninf" -> -1
    [] OTHER -> IF v.n > 0 THEN 1 ELSE IF v.n < 0 THEN -1 ELSE 0

\* a < b on extended numbers; any comparison with NaN is false
Lt(a, b) ==
  CASE a.t = "nan" \/ b.t = "nan" -> FALSE
    [] a.t = "inf" -> FALSE
    [] b.t = "ninf" -> FALSE
    [] a.t = "ninf" -> TRUE
    [] b.t = "inf" -> TRUE
    [] OTHER -> a.n * b.d < b.n * a.d
Gt(a, b) == Lt(b, a)
Le(a, b) == a.t # "nan" /\ b.t # "nan" /\ ~Lt(b, a)
Ge(a, b) == Le(b, a)

Neg(a) ==
  CASE a.t = "nan" -> NaN
    [] a.t = "inf" -> NInf
    [] a.t = "ninf" -> PInf
    [] OTHER -> Rat(-a.n, a.d)

Mul(a, b) ==
  CASE a.t = "nan" \/ b.t = "nan" -> NaN
    [] a.t = "num" /\ b.t = "num" -> Rat(a.n * b.n, a.d * b.d)
    [] OTHER -> IF Sign(a) * Sign(b) = 0 THEN NaN
                ELSE IF Sign(a) * Sign(b) > 0 THEN PInf ELSE NInf

Add(a, b) ==
  CASE a.t = "nan" \/ b.t = "nan" -> NaN
    [] a.t = "num" /\ b.t = "num" -> Rat(a.n * b.d + b.n * a.d, a.d * b.d)
    [] a.t = "num" -> b
    [] b.t = "num" -> a
    [] OTHER -> IF a.t = b.t THEN a ELSE NaN

Sub(a, b) == Add(a, Neg(b))

\* IEEE division (the sign of a zero is not tracked: x/0 is +/-Infinity by the
\* sign of x, 0/0 is NaN)
Div(a, b) ==
  CASE a.t = "nan" \/ b.t = "nan" -> NaN
    [] a.t = "num" /\ b.t = "num" ->
         IF b.n = 0
         THEN (IF a.n = 0 THEN NaN ELSE IF a.n > 0 THEN PInf ELSE NInf)
         ELSE Rat(a.n * b.d, a.d * b.n)
    [] a.t = "num" -> Num(0)
    [] b.t = "num" -> IF Sign(a) * (IF Sign(b) < 0 THEN -1 ELSE 1) > 0 THEN PInf ELSE NInf
    [] OTHER -> NaN

Max2(a, b) == IF a.t = "nan" \/ b.t = "nan" THEN NaN ELSE IF Lt(a, b) THEN b ELSE a

\* ToNumber: what the arithmetic operators do to a non-number operand.
\* Every string of the value pools is non-numeric.
ToNumber(v) ==
  CASE IsNumberType(v) -> v
    [] v.t = "null" -> Num(0)
    [] v.t = "bool" -> IF v.b THEN Num(1) ELSE Num(0)
    [] OTHER -> NaN

\* binary + : string concatenation as soon as one operand is a string or an
\* object, and the concatenation of a non-numeric string is non-numeric
Plus(a, b) ==
  IF a.t \in {"str", "obj", "arr", "host"} \/ b.t \in {"str", "obj", "arr", "host"}
  THEN Str("concat")
  ELSE Add(ToNumber(a), ToNumber(b))

\* truthiness
Truthy(v) ==
  CASE v.t \in {"undef", "null", "nan"} -> FALSE
    [] v.t = "num" -> v.n # 0
    [] v.t = "str" -> v.s # ""
    [] v.t = "bool" -> v.b
    [] OTHER -> TRUE

(***************************************************************************)
(* Objects as key/value sequences                                          *)
(***************************************************************************)
Keys(o) == [i \in 1..Len(o) |-> o[i][1]]
KeySet(o) == {o[i][1] : i \in 1..Len(o)}
Has(o, k) == \E i \in 1..Len(o) : o[i][1] = k
Get(o, k) ==
  IF Has(o, k) THEN o[CHOOSE i \in 1..Len(o) : o[i][1] = k][2] ELSE Undef
\* o[k] = v : an existing key keeps its position, a new key is appended
Put(o, k, v) ==
  IF Has(o, k)
  THEN [i \in 1..Len(o) |-> IF o[i][1] = k THEN <<k, v>> ELSE o[i]]
  ELSE Append(o, <<k, v>>)
Remove(o, k) == SelectSeq(o, LAMBDA kv : kv[1] # k)
\* deep equality irrespective of key order
SameObject(a, b) ==
  /\ KeySet(a) = KeySet(b)
  /\ \A k \in KeySet(a) : Get(a, k) = Get(b, k)

(***************************************************************************)
(* Alias resolution shared by every schema module                          *)
(***************************************************************************)
IndexKeys == <<"0", "1", "2", "3">>

\* the own enumerable string-keyed entries Object.keys walks over
OwnEntries(v) ==
  CASE v.t = "obj" -> v.o
    [] v.t = "arr" -> [i \in 1..Len(v.a) |-> <<IndexKeys[i], v.a[i]>>]
    [] v.t = "str" -> [i \in 1..Len(v.s) |-> <<IndexKeys[i], Str("char")>>]
    [] OTHER -> <<>>

\* properties every object literal inherits from Object.prototype
ObjectPrototype(key) ==
  CASE key = "constructor" -> Host("function Object() { [native code] }")
    [] key = "toString" -> Host("function toString() { [native code] }")
    [] key = "__proto__" -> Host("[object Object]")
    [] OTHER -> Undef

LookupMutant(map, key) ==
  IF Has(map, key) THEN Str(key) ELSE ObjectPrototype(key)

\* map[key] on an object literal: own property first, then the prototype
Lookup(map, key) ==
  IF Has(map, key) THEN Str(Get(map, key)) ELSE ObjectPrototype(key)

\* the property key a value turns into when used as result[canonical]
PropertyKey(v) == v.s

\* an error message: its kind (the fixed text), the key it names, the raw key
\* it came through, and the keys it lists; wrap is the prefix the pipeline adds
Err(kind, key, via, keys) == [wrap |-> "", kind |-> kind, key |-> key, via |-> via, keys |-> keys]
NoErr == Err("", "", "", <<>>)

Ok(value) == [thrown |-> FALSE, error |-> NoErr, value |-> value]
Throw(error) == [thrown |-> TRUE, error |-> error, value |-> <<>>]

\* `canonical === undefined` : the unknown-key test of the TypeScript modules
IsUnknownMutant(canonical) == FALSE
IsUnknown(canonical) == canonical = Undef

\* `seen.has(canonical)` : the duplicate test
SeenHasMutant(seen, canonical) == FALSE
SeenHas(seen, canonical) == canonical \in seen

\* the for-loop over Object.keys(rawParams) of every normalize
RECURSIVE AliasLoop(_, _, _, _, _)
AliasLoop(entries, map, i, seen, result) ==
  IF i > Len(entries) THEN Ok(result)
  ELSE LET key == entries[i][1]
           canonical == Lookup(map, key)
       IN IF IsUnknown(canonical)
          THEN Throw(Err("Unknown parameter", key, "", Keys(map)))
          ELSE IF SeenHas(seen, canonical)
          THEN Throw(Err("Duplicate mapping", PropertyKey(canonical), key, <<>>))
          ELSE AliasLoop(entries, map, i + 1, seen \cup {canonical},
                         Put(result, PropertyKey(canonical), entries[i][2]))

\* if (result.k === undefined) throw new Error('Missing required parameter ...')
Require(res, k, aliases) ==
  IF res.thrown THEN res
  ELSE IF Get(res.value, k) = Undef
       THEN Throw(Err("Missing required parameter", k, "", aliases))
       ELSE res

\* if (result.k === undefined) result.k = v
DefaultMutant(res, k, v) == res
Default(res, k, v) ==
  IF res.thrown THEN res
  ELSE IF Get(res.value, k) = Undef THEN Ok(Put(res.value, k, v)) ELSE res

\* if (result.k === undefined) result.k = result.from
DefaultFrom(res, k, from) ==
  IF res.thrown THEN res ELSE Default(res, k, Get(res.value, from))

(***************************************************************************)
(* Alias maps (PARAM_MAP) of the nine schema modules                       *)
(***************************************************************************)
Self(keys) == [i \in 1..Len(keys) |-> <<keys[i], keys[i]>>]

PARAM_MAP_harmonic_oscillator ==
  << <<"amplitude", "amplitude">>, <<"A", "amplitude">>,
     <<"frequency", "frequency">>, <<"f", "frequency">>,
     <<"phase", "phase">> >>

PARAM_MAP_damped_oscillator ==
  << <<"amplitude", "amplitude">>, <<"A", "amplitude">>,
     <<"frequency", "frequency">>, <<"f", "frequency">>,
     <<"dampingRatio", "dampingRatio">>, <<"zeta", "dampingRatio">>,
     <<"phase", "phase">> >>

PARAM_MAP_driven_oscillator ==
  << <<"amplitude", "amplitude">>, <<"A", "amplitude">>,
     <<"naturalFrequency", "naturalFrequency">>, <<"fn", "naturalFrequency">>,
     <<"driveAmplitude", "driveAmplitude">>, <<"Ad", "driveAmplitude">>,
     <<"driveFrequency", "driveFrequency">>, <<"fd", "driveFrequency">>,
     <<"dampingRatio", "dampingRatio">>, <<"zeta", "dampingRatio">>,
     <<"phase", "phase">>, <<"drivePhase", "drivePhase">> >>

PARAM_MAP_coupled_oscillators_2mass ==
  << <<"mass", "mass">>, <<"m", "mass">>,
     <<"anchorStiffness", "anchorStiffness">>, <<"kAnchor", "anchorStiffness">>,
     <<"couplingStiffness", "couplingStiffness">>, <<"kCoupling", "couplingStiffness">>,
     <<"amplitude1", "amplitude1">>, <<"A1", "amplitude1">>,
     <<"amplitude2", "amplitude2">>, <<"A2", "amplitude2">>,
     <<"phaseOffset", "phaseOffset">>, <<"deltaPhase", "phaseOffset">> >>

PARAM_MAP_projectile_motion ==
  << <<"initialSpeed", "initialSpeed">>, <<"v0", "initialSpeed">>,
     <<"launchAngleDeg", "launchAngleDeg">>, <<"thetaDeg", "launchAngleDeg">>,
     <<"gravity", "gravity">>, <<"g", "gravity">>,
     <<"initialHeight", "initialHeight">>, <<"h0", "initialHeight">>,
     <<"mass", "mass">>, <<"m", "mass">>,
     <<"dragCoefficient", "dragCoefficient">>, <<"cd", "dragCoefficient">> >>

PARAM_MAP_uniform_circular_motion ==
  << <<"radius", "radius">>, <<"r", "radius">>,
     <<"angularSpeed", "angularSpeed">>, <<"omega", "angularSpeed">>,
     <<"phase", "phase">>,
     <<"mass", "mass">>, <<"m", "mass">>,
     <<"plane", "plane">> >>

PARAM_MAP_kepler_two_body_orbit ==
  << <<"semiMajorAxis", "semiMajorAxis">>, <<"a", "semiMajorAxis">>,
     <<"eccentricity", "eccentricity">>, <<"e", "eccentricity">>,
     <<"gravitationalParameter", "gravitationalParameter">>, <<"mu", "gravitationalParameter">>,
     <<"phase", "phase">>,
     <<"inclinationDeg", "inclinationDeg">>, <<"inclination", "inclinationDeg">> >>

PARAM_MAP_laminar_internal_flow ==
  << <<"geometryType", "geometryType">>,
     <<"length", "length">>, <<"L", "length">>,
     <<"hydraulicDiameter", "hydraulicDiameter">>, <<"Dh", "hydraulicDiameter">>,
     <<"pipeRadius", "pipeRadius">>, <<"radius", "pipeRadius">>, <<"r", "pipeRadius">>,
     <<"pipeDiameter", "pipeDiameter">>, <<"diameter", "pipeDiameter">>, <<"D", "pipeDiameter">>,
     <<"channelWidth", "channelWidth">>, <<"channelHeight", "channelHeight">>,
     <<"rectangularWidth", "rectangularWidth">>, <<"rectangularHeight", "rectangularHeight">>,
     <<"annulusInnerDiameter", "annulusInnerDiameter">>, <<"innerDiameter", "annulusInnerDiameter">>,
     <<"annulusOuterDiameter", "annulusOuterDiameter">>, <<"outerDiameter", "annulusOuterDiameter">>,
     <<"density", "density">>, <<"rho", "density">>,
     <<"dynamicViscosity", "dynamicViscosity">>, <<"mu", "dynamicViscosity">>,
     <<"reynoldsNumber", "reynoldsNumber">>, <<"Re", "reynoldsNumber">>,
     <<"drivingMechanism", "drivingMechanism">>,
     <<"meanVelocity", "meanVelocity">>, <<"U", "meanVelocity">>,
     <<"pressureGradient", "pressureGradient">>, <<"dPdx", "pressureGradient">>,
     <<"transient", "transient">>,
     <<"thermalConductivity", "thermalConductivity">>,
     <<"specificHeat", "specificHeat">> >>

PARAM_MAP_fluid_system ==
  Self(<<"geometry", "fluidProperties", "flowConfiguration", "flowRegime">>)

(***************************************************************************)
(* normalize of the schema modules                                         *)
(***************************************************************************)
normalize_harmonic_oscillator(rawParams) ==
  Default(
    Require(
      Require(AliasLoop(OwnEntries(rawParams), PARAM_MAP_harmonic_oscillator, 1, {}, <<>>),
              "amplitude", <<"A">>),
      "frequency", <<"f">>),
    "phase", Num(0))

normalize_damped_oscillator(rawParams) ==
  Default(
    Default(
      Require(
        Require(AliasLoop(OwnEntries(rawParams), PARAM_MAP_damped_oscillator, 1, {}, <<>>),
                "amplitude", <<"A">>),
        "frequency", <<"f">>),
      "dampingRatio", Rat(5, 100)),
    "phase", Num(0))

normalize_driven_oscillator(rawParams) ==
  Default(
    Default(
      Default(
        DefaultFrom(
          DefaultFrom(
            Require(
              Require(AliasLoop(OwnEntries(rawParams), PARAM_MAP_driven_oscillator, 1, {}, <<>>),
                      "amplitude", <<"A">>),
              "naturalFrequency", <<"fn">>),
            "driveAmplitude", "amplitude"),
          "driveFrequency", "naturalFrequency"),
        "dampingRatio", Rat(5, 100)),
      "phase", Num(0)),
    "drivePhase", Num(0))

normalize_coupled_oscillators_2mass(rawParams) ==
  Default(
    DefaultFrom(
      Require(
        Require(
          Require(
            Default(AliasLoop(OwnEntries(rawParams), PARAM_MAP_coupled_oscillators_2mass, 1, {}, <<>>),
                    "mass", Num(1)),
            "anchorStiffness", <<"kAnchor">>),
          "couplingStiffness", <<"kCoupling">>),
        "amplitude1", <<"A1">>),
      "amplitude2", "amplitude1"),
    "phaseOffset", Num(0))

normalize_projectile_motion(rawParams) ==
  Default(
    Default(
      Default(
        Default(
          Require(
            Require(AliasLoop(OwnEntries(rawParams), PARAM_MAP_projectile_motion, 1, {}, <<>>),
                    "initialSpeed", <<"v0">>),
            "launchAngleDeg", <<"thetaDeg">>),
          "gravity", Rat(981, 100)),
        "initialHeight", Num(0)),
      "mass", Num(1)),
    "dragCoefficient", Num(0))

normalize_uniform_circular_motion(rawParams) ==
  Default(
    Default(
      Default(
        Require(
          Require(AliasLoop(OwnEntries(rawParams), PARAM_MAP_uniform_circular_motion, 1, {}, <<>>),
                  "radius", <<"r">>),
          "angularSpeed", <<"omega">>),
        "phase", Num(0)),
      "mass", Num(1)),
    "plane", Str("xy"))

normalize_kepler_two_body_orbit(rawParams) ==
  Default(
    Default(
      Require(
        Require(
          Require(AliasLoop(OwnEntries(rawParams), PARAM_MAP_kepler_two_body_orbit, 1, {}, <<>>),
                  "semiMajorAxis", <<"a">>),
          "eccentricity", <<"e">>),
        "gravitationalParameter", <<"mu">>),
      "phase", Num(0)),
    "inclinationDeg", Num(0))

normalize_fluid_system(rawParams) ==
  Require(
    Require(
      Require(
        Require(AliasLoop(OwnEntries(rawParams), PARAM_MAP_fluid_system, 1, {}, <<>>),
                "geometry", <<>>),
        "fluidProperties", <<>>),
      "flowConfiguration", <<>>),
    "flowRegime", <<>>)

\* result.a = v inside deriveHydraulicDiameter
Assign(res, k, v) == Ok(Put(res.value, k, v))

\* 2 * result.pipeRadius
TwiceMutant(v) == ToNumber(v)
Twice(v) == Mul(Num(2), ToNumber(v))

deriveHydraulicDiameterMutant(res) == res
deriveHydraulicDiameter(res) ==
  LET r == res.value
      g == Get(r, "geometryType")
      has(k) == Get(r, k) # Undef
  IN
  IF g = Str("pipe") THEN
    IF has("pipeRadius") THEN
      LET d == Twice(Get(r, "pipeRadius"))
      IN Assign(Assign(res, "pipeDiameter", d), "hydraulicDiameter", d)
    ELSE IF has("pipeDiameter") THEN
      Assign(Assign(res, "pipeRadius", Div(ToNumber(Get(r, "pipeDiameter")), Num(2))),
             "hydraulicDiameter", Get(r, "pipeDiameter"))
    ELSE IF has("hydraulicDiameter") THEN
      Assign(Assign(res, "pipeDiameter", Get(r, "hydraulicDiameter")),
             "pipeRadius", Div(ToNumber(Get(r, "hydraulicDiameter")), Num(2)))
    ELSE Throw(Err("Pipe geometry requires one of", "", "", <<"pipeRadius", "pipeDiameter", "hydraulicDiameter">>))
  ELSE IF g = Str("annulus") THEN
    IF has("annulusInnerDiameter") /\ has("annulusOuterDiameter") THEN
      Assign(res, "hydraulicDiameter",
             Sub(ToNumber(Get(r, "annulusOuterDiameter")), ToNumber(Get(r, "annulusInnerDiameter"))))
    ELSE IF has("hydraulicDiameter") THEN res
    ELSE Throw(Err("Annulus geometry requires", "", "", <<"annulusInnerDiameter", "annulusOuterDiameter", "hydraulicDiameter">>))
  ELSE IF g = Str("channel") THEN
    IF has("channelWidth") /\ has("channelHeight") THEN
      LET w == Get(r, "channelWidth")
          h == Get(r, "channelHeight")
      IN Assign(res, "hydraulicDiameter",
                Div(Mul(Mul(Num(2), ToNumber(w)), ToNumber(h)), ToNumber(Plus(w, h))))
    ELSE IF has("hydraulicDiameter") THEN res
    ELSE Throw(Err("Channel geometry requires", "", "", <<"channelWidth", "channelHeight", "hydraulicDiameter">>))
  ELSE IF g = Str("rectangular_duct") THEN
    IF has("rectangularWidth") /\ has("rectangularHeight") THEN
      LET w == Get(r, "rectangularWidth")
          h == Get(r, "rectangularHeight")
      IN Assign(res, "hydraulicDiameter",
                Div(Mul(Mul(Num(2), ToNumber(w)), ToNumber(h)), ToNumber(Plus(w, h))))
    ELSE Throw(Err("Rectangular duct geometry requires", "", "", <<"rectangularWidth", "rectangularHeight">>))
  ELSE res

\* deriveHydraulicDiameter(result) as a statement of normalize
Derive(res) == IF res.thrown THEN res ELSE deriveHydraulicDiameter(res)

normalize_laminar_internal_flow(rawParams) ==
  Default(
    Default(
      Require(
        Require(
          Require(
            Derive(
              Require(
                Default(AliasLoop(OwnEntries(rawParams), PARAM_MAP_laminar_internal_flow, 1, {}, <<>>),
                        "geometryType", Str("pipe")),
                "length", <<"L">>)),
            "density", <<"rho">>),
          "dynamicViscosity", <<"mu">>),
        "reynoldsNumber", <<"Re">>),
      "drivingMechanism", Str("velocity-driven")),
    "transient", Bool(FALSE))

(***************************************************************************)
(* The zod subset the schemas use                                          *)
(***************************************************************************)
ZNumber(checks) == [z |-> "number", checks |-> checks]
ZBoolean == [z |-> "boolean"]
ZString(min) == [z |-> "string", min |-> min]
ZLiteral(v) == [z |-> "literal", v |-> v]
ZEnum(vals) == [z |-> "enum", vals |-> vals]
ZObject(fields) == [z |-> "object", fields |-> fields]
ZUnion(opts) == [z |-> "union", opts |-> opts]
ZDiscriminatedUnion(disc, opts) == [z |-> "disc", disc |-> disc, opts |-> opts]
ZArray(elem, min) == [z |-> "array", elem |-> elem, min |-> min]
Fld(key, ty) == [key |-> key, ty |-> ty, opt |-> FALSE]
Opt(key, ty) == [key |-> key, ty |-> ty, opt |-> TRUE]
Chk(op, b) == [op |-> op, b |-> b]

Issue(path, code, keys) == Err("structure", path, code, keys)
PathJoin(path, key) == IF path = "" THEN key ELSE path \o "." \o key

\* one refinement of z.number(): TRUE when v violates it
CheckFails(c, v) ==
  CASE c.op = "finite" -> ~IsFinite(v)
    [] c.op = "gt" -> ~Gt(v, c.b)
    [] c.op = "min" -> ~Ge(v, c.b)
    [] c.op = "lt" -> ~Lt(v, c.b)
    [] c.op = "max" -> ~Le(v, c.b)
    [] c.op = "int" -> ~(IsFinite(v) /\ v.d = 1)

RECURSIVE NumberIssues(_, _, _, _)
NumberIssues(checks, v, path, i) ==
  IF i > Len(checks) THEN <<>>
  ELSE (IF CheckFails(checks[i], v) THEN <<Issue(path, checks[i].op, <<>>)>> ELSE <<>>)
       \o NumberIssues(checks, v, path, i + 1)

FieldKeys(fields) == {fields[i].key : i \in 1..Len(fields)}

\* the issues safeParse reports for value v against type ty
RECURSIVE Issues(_, _, _)
RECURSIVE FieldIssues(_, _, _, _)
RECURSIVE ElemIssues(_, _, _, _)
Issues(ty, v, path) ==
  CASE ty.z = "number" ->
         IF v.t \in {"num", "inf", "ninf"}
         THEN NumberIssues(ty.checks, v, path, 1)
         ELSE <<Issue(path, "invalid_type", <<>>)>>
    [] ty.z = "boolean" ->
         IF v.t = "bool" THEN <<>> ELSE <<Issue(path, "invalid_type", <<>>)>>
    [] ty.z = "string" ->
         IF v.t # "str" THEN <<Issue(path, "invalid_type", <<>>)>>
         ELSE IF Len(v.s) < ty.min THEN <<Issue(path, "too_small", <<>>)>> ELSE <<>>
    [] ty.z = "literal" ->
         IF v = ty.v THEN <<>> ELSE <<Issue(path, "invalid_literal", <<>>)>>
    [] ty.z = "enum" ->
         IF v.t # "str" THEN <<Issue(path, "invalid_type", <<>>)>>
         ELSE IF v.s \in ty.vals THEN <<>> ELSE <<Issue(path, "invalid_enum_value", <<>>)>>
    [] ty.z = "object" ->
         IF v.t # "obj" THEN <<Issue(path, "invalid_type", <<>>)>>
         ELSE LET extra == SelectSeq(Keys(v.o), LAMBDA k : k \notin FieldKeys(ty.fields))
              IN FieldIssues(ty.fields, v.o, path, 1)
                 \o (IF extra # <<>> THEN <<Issue(path, "unrecognized_keys", extra)>> ELSE <<>>)
    [] ty.z = "union" ->
         IF \E i \in 1..Len(ty.opts) : Issues(ty.opts[i], v, path) = <<>>
         THEN <<>> ELSE <<Issue(path, "invalid_union", <<>>)>>
    [] ty.z = "disc" ->
         IF v.t # "obj" THEN <<Issue(path, "invalid_type", <<>>)>>
         ELSE LET tag == Get(v.o, ty.disc)
                  match == {i \in 1..Len(ty.opts) :
                              \E j \in 1..Len(ty.opts[i].fields) :
                                 /\ ty.opts[i].fields[j].key = ty.disc
                                 /\ ty.opts[i].fields[j].ty.v = tag}
              IN IF match = {}
                 THEN <<Issue(PathJoin(path, ty.disc), "invalid_union_discriminator", <<>>)>>
                 ELSE Issues(ty.opts[CHOOSE i \in match : TRUE], v, path)
    [] ty.z = "array" ->
         IF v.t # "arr" THEN <<Issue(path, "invalid_type", <<>>)>>
         ELSE (IF Len(v.a) < ty.min THEN <<Issue(path, "too_small", <<>>)>> ELSE <<>>)
              \o ElemIssues(ty.elem, v.a, path, 1)
FieldIssues(fields, o, path, i) ==
  IF i > Len(fields) THEN <<>>
  ELSE LET f == fields[i]
           v == Get(o, f.key)
       IN (IF v = Undef /\ f.opt THEN <<>> ELSE Issues(f.ty, v, PathJoin(path, f.key)))
          \o FieldIssues(fields, o, path, i + 1)
ElemIssues(elem, a, path, i) ==
  IF i > Len(a) THEN <<>>
  ELSE Issues(elem, a[i], PathJoin(path, IndexKeys[i])) \o ElemIssues(elem, a, path, i + 1)

safeParse(ty, v) == Issues(ty, v, "")

\* issue.path prefixed with "assembly."
Prefixed(issues) ==
  [i \in 1..Len(issues) |-> [issues[i] EXCEPT !.key = "assembly." \o issues[i].key]]

PositiveFiniteNumber == ZNumber(<<Chk("finite", Num(0)), Chk("gt", Num(0))>>)
NonNegativeFiniteNumber == ZNumber(<<Chk("finite", Num(0)), Chk("min", Num(0))>>)
FiniteNumber == ZNumber(<<Chk("finite", Num(0))>>)
PositiveInteger == ZNumber(<<Chk("int", Num(0)), Chk("gt", Num(0))>>)

(***************************************************************************)
(* Pillar type library                                                     *)
(***************************************************************************)
Lit(s) == ZLiteral(Str(s))
Dim123 == ZEnum({"1d", "2d", "3d"})
Axis == ZEnum({"x", "y", "z"})

PointMassState ==
  ZObject(<<Fld("kind", Lit("point_mass")), Fld("dof", Dim123), Fld("mass", PositiveFiniteNumber)>>)
FieldVectorState ==
  ZObject(<<Fld("kind", Lit("field_vector")), Fld("dimension", Dim123),
            Fld("components", ZNumber(<<Chk("int", Num(0)), Chk("min", Num(1)), Chk("max", Num(3))>>))>>)
ParticleEnsembleState ==
  ZObject(<<Fld("kind", Lit("particle_ensemble")), Fld("count", PositiveInteger),
            Opt("particleMass", PositiveFiniteNumber)>>)

Orientation ==
  ZObject(<<Fld("axis", Axis), Fld("direction", ZEnum({"positive", "negative"}))>>)
DomainOf(kind, dims) ==
  ZObject(<<Fld("kind", Lit(kind)), Fld("characteristicLength", PositiveFiniteNumber),
            Fld("dimensions", ZObject([i \in 1..Len(dims) |-> Fld(dims[i], PositiveFiniteNumber)])),
            Fld("orientation", Orientation)>>)
Interval1DDomain == DomainOf("interval_1d", <<"length">>)
Rect2DDomain == DomainOf("rect_2d", <<"width", "height">>)
Box3DDomain == DomainOf("box_3d", <<"width", "height", "depth">>)
PipeDomain == DomainOf("pipe", <<"length", "diameter">>)
ChannelDomain == DomainOf("channel", <<"length", "width", "height">>)

IdealSpringMaterial ==
  ZObject(<<Fld("kind", Lit("ideal_spring")), Fld("stiffness", PositiveFiniteNumber),
            Opt("dampingRatio", NonNegativeFiniteNumber)>>)
InertialParticleMaterial ==
  ZObject(<<Fld("kind", Lit("inertial_particle")), Fld("dragCoefficient", NonNegativeFiniteNumber)>>)
NewtonianFluidMaterial ==
  ZObject(<<Fld("kind", Lit("newtonian_fluid")), Fld("density", PositiveFiniteNumber),
            Fld("dynamicViscosity", PositiveFiniteNumber),
            Opt("thermalConductivity", PositiveFiniteNumber),
            Opt("specificHeat", PositiveFiniteNumber)>>)

TargetOnly(type) == ZObject(<<Fld("type", Lit(type)), Fld("target", ZString(1))>>)
Constraint ==
  ZDiscriminatedUnion("type",
    <<TargetOnly("fixed"), TargetOnly("free"),
      ZObject(<<Fld("type", Lit("periodic")), Fld("target", ZString(1)), Fld("pairedTarget", ZString(1))>>),
      TargetOnly("no_slip"),
      ZObject(<<Fld("type", Lit("specified_value")), Fld("target", ZString(1)),
                Fld("quantity", ZString(1)), Fld("value", FiniteNumber)>>)>>)
Constraints == ZArray(Constraint, 1)

NoForcing == ZObject(<<Fld("kind", Lit("none"))>>)
ConstantFieldForcing ==
  ZObject(<<Fld("kind", Lit("constant_field")), Fld("quantity", ZString(1)),
            Fld("magnitude", FiniteNumber), Opt("direction", Axis)>>)
HarmonicDriveForcing ==
  ZObject(<<Fld("kind", Lit("harmonic_drive")), Fld("amplitude", PositiveFiniteNumber),
            Fld("frequency", PositiveFiniteNumber), Fld("phase", FiniteNumber)>>)
PressureGradientForcing ==
  ZObject(<<Fld("kind", Lit("pressure_gradient")), Fld("gradient", FiniteNumber), Fld("axis", Axis)>>)
CentralInverseSquareForcing ==
  ZObject(<<Fld("kind", Lit("central_inverse_square")), Fld("mu", PositiveFiniteNumber),
            Fld("center", ZObject(<<Fld("x", FiniteNumber), Fld("y", FiniteNumber), Fld("z", FiniteNumber)>>))>>)

DampedShmEvolution ==
  ZObject(<<Fld("kind", Lit("damped_shm")), Fld("dampingRatio", NonNegativeFiniteNumber)>>)
KinematicEvolution ==
  ZObject(<<Fld("kind", Lit("kinematic")), Fld("transient", ZLiteral(Bool(TRUE))),
            Fld("referenceFrame", ZEnum({"inertial", "non_inertial"}))>>)
UniformCircularEvolution ==
  ZObject(<<Fld("kind", Lit("uniform_circular")), Fld("transient", ZLiteral(Bool(TRUE))),
            Fld("plane", ZEnum({"xy", "xz", "yz"}))>>)
OrbitalTwoBodyEvolution ==
  ZObject(<<Fld("kind", Lit("orbital_two_body")), Fld("transient", ZLiteral(Bool(TRUE))),
            Fld("frame", ZEnum({"inertial", "barycentric"}))>>)
NavierStokesEvolution ==
  ZObject(<<Fld("kind", Lit("navier_stokes")), Fld("incompressible", ZLiteral(Bool(TRUE))),
            Fld("newtonian", ZLiteral(Bool(TRUE))), Fld("transient", ZBoolean)>>)
WaveEquationEvolution ==
  ZObject(<<Fld("kind", Lit("wave_equation")), Fld("waveSpeed", PositiveFiniteNumber),
            Fld("transient", ZBoolean)>>)

Assembly(state, domain, material, forcing, evolution) ==
  ZObject(<<Fld("state", state), Fld("domain", domain), Fld("material", material),
            Fld("constraints", Constraints), Fld("forcing", forcing), Fld("evolution", evolution)>>)

(***************************************************************************)
(* Canonical shapes and assemblies of the schema modules                   *)
(***************************************************************************)
DampedOscillator ==
  ZObject(<<Fld("amplitude", PositiveFiniteNumber), Fld("frequency", PositiveFiniteNumber),
            Fld("dampingRatio", NonNegativeFiniteNumber), Fld("phase", FiniteNumber)>>)
DrivenOscillator ==
  ZObject(<<Fld("amplitude", PositiveFiniteNumber), Fld("naturalFrequency", PositiveFiniteNumber),
            Fld("driveAmplitude", PositiveFiniteNumber), Fld("driveFrequency", PositiveFiniteNumber),
            Fld("dampingRatio", NonNegativeFiniteNumber), Fld("phase", FiniteNumber),
            Fld("drivePhase", FiniteNumber)>>)
CoupledOscillators2Mass ==
  ZObject(<<Fld("mass", PositiveFiniteNumber), Fld("anchorStiffness", PositiveFiniteNumber),
            Fld("couplingStiffness", PositiveFiniteNumber), Fld("amplitude1", PositiveFiniteNumber),
            Fld("amplitude2", PositiveFiniteNumber), Fld("phaseOffset", FiniteNumber)>>)
ProjectileMotion ==
  ZObject(<<Fld("initialSpeed", PositiveFiniteNumber),
            Fld("launchAngleDeg", ZNumber(<<Chk("finite", Num(0)), Chk("gt", Num(0)), Chk("lt", Num(90))>>)),
            Fld("gravity", PositiveFiniteNumber), Fld("initialHeight", NonNegativeFiniteNumber),
            Fld("mass", PositiveFiniteNumber), Fld("dragCoefficient", NonNegativeFiniteNumber)>>)
UniformCircularMotion ==
  ZObject(<<Fld("radius", PositiveFiniteNumber), Fld("angularSpeed", PositiveFiniteNumber),
            Fld("phase", FiniteNumber), Fld("mass", PositiveFiniteNumber),
            Fld("plane", ZEnum({"xy", "xz", "yz"}))>>)
KeplerTwoBodyOrbit ==
  ZObject(<<Fld("semiMajorAxis", PositiveFiniteNumber),
            Fld("eccentricity", ZNumber(<<Chk("finite", Num(0)), Chk("min", Num(0)), Chk("lt", Num(1))>>)),
            Fld("gravitationalParameter", PositiveFiniteNumber), Fld("phase", FiniteNumber),
            Fld("inclinationDeg", ZNumber(<<Chk("finite", Num(0)), Chk("min", Num(0)), Chk("max", Num(180))>>))>>)
LaminarInternalFlow ==
  ZObject(<<Fld("geometryType", ZEnum({"pipe", "channel", "rectangular_duct", "annulus"})),
            Fld("length", PositiveFiniteNumber), Fld("hydraulicDiameter", PositiveFiniteNumber),
            Opt("pipeRadius", PositiveFiniteNumber), Opt("pipeDiameter", PositiveFiniteNumber),
            Opt("channelWidth", PositiveFiniteNumber), Opt("channelHeight", PositiveFiniteNumber),
            Opt("rectangularWidth", PositiveFiniteNumber), Opt("rectangularHeight", PositiveFiniteNumber),
            Opt("annulusInnerDiameter", PositiveFiniteNumber), Opt("annulusOuterDiameter", PositiveFiniteNumber),
            Fld("density", PositiveFiniteNumber), Fld("dynamicViscosity", PositiveFiniteNumber),
            Fld("reynoldsNumber", FiniteNumber),
            Fld("drivingMechanism", ZEnum({"velocity-driven", "pressure-driven"})),
            Opt("meanVelocity", PositiveFiniteNumber), Opt("pressureGradient", FiniteNumber),
            Fld("transient", ZBoolean),
            Opt("thermalConductivity", PositiveFiniteNumber), Opt("specificHeat", PositiveFiniteNumber)>>)

DampedOscillatorAssembly ==
  Assembly(PointMassState, Interval1DDomain, IdealSpringMaterial, NoForcing, DampedShmEvolution)
DrivenOscillatorAssembly ==
  Assembly(PointMassState, Interval1DDomain, IdealSpringMaterial, HarmonicDriveForcing, DampedShmEvolution)
CoupledOscillatorsAssembly ==
  Assembly(ParticleEnsembleState, Interval1DDomain, IdealSpringMaterial, NoForcing, WaveEquationEvolution)
ProjectileAssembly ==
  Assembly(PointMassState, Rect2DDomain, InertialParticleMaterial, ConstantFieldForcing, KinematicEvolution)
UniformCircularAssembly ==
  Assembly(PointMassState, Box3DDomain, InertialParticleMaterial, NoForcing, UniformCircularEvolution)
KeplerAssembly ==
  Assembly(ParticleEnsembleState, Box3DDomain, InertialParticleMaterial, CentralInverseSquareForcing,
           OrbitalTwoBodyEvolution)
LaminarFlowAssembly ==
  Assembly(FieldVectorState, ZUnion(<<PipeDomain, ChannelDomain>>), NewtonianFluidMaterial,
           ZUnion(<<NoForcing, PressureGradientForcing>>), NavierStokesEvolution)

\* object literals
KV(k, v) == <<k, v>>
DomainValue(kind, cl, dims, axis) ==
  Obj(<<KV("kind", Str(kind)), KV("characteristicLength", cl), KV("dimensions", Obj(dims)),
        KV("orientation", Obj(<<KV("axis", Str(axis)), KV("direction", Str("positive"))>>))>>)
Fixed(target) == Obj(<<KV("type", Str("fixed")), KV("target", Str(target))>>)
Free(target) == Obj(<<KV("type", Str("free")), KV("target", Str(target))>>)
NoSlip(target) == Obj(<<KV("type", Str("no_slip")), KV("target", Str(target))>>)
SpecifiedValue(target, quantity, value) ==
  Obj(<<KV("type", Str("specified_value")), KV("target", Str(target)),
        KV("quantity", Str(quantity)), KV("value", value)>>)
AssemblyValue(state, domain, material, constraints, forcing, evolution) ==
  Obj(<<KV("state", state), KV("domain", domain), KV("material", material),
        KV("constraints", Arr(constraints)), KV("forcing", forcing), KV("evolution", evolution)>>)

\* positive factors (4*pi^2) and monotone functions (sqrt) that cannot change
\* the sign or the finiteness of a value are left out of the derived numbers
buildDampedAssembly(p) ==
  LET stiffness == Mul(ToNumber(Get(p, "frequency")), ToNumber(Get(p, "frequency")))
      length == Mul(ToNumber(Get(p, "amplitude")), Num(2))
  IN AssemblyValue(
       Obj(<<KV("kind", Str("point_mass")), KV("dof", Str("1d")), KV("mass", Num(1))>>),
       DomainValue("interval_1d", length, <<KV("length", length)>>, "x"),
       Obj(<<KV("kind", Str("ideal_spring")), KV("stiffness", stiffness),
             KV("dampingRatio", Get(p, "dampingRatio"))>>),
       <<Fixed("origin"), SpecifiedValue("state.phase", "phase", Get(p, "phase"))>>,
       Obj(<<KV("kind", Str("none"))>>),
       Obj(<<KV("kind", Str("damped_shm")), KV("dampingRatio", Get(p, "dampingRatio"))>>))

\* the Assembly of another concept
buildDrivenAssemblyMutant(p) == buildDampedAssembly(p)
buildDrivenAssembly(p) ==
  LET stiffness == Mul(ToNumber(Get(p, "naturalFrequency")), ToNumber(Get(p, "naturalFrequency")))
      length == Mul(Max2(ToNumber(Get(p, "amplitude")), ToNumber(Get(p, "driveAmplitude"))), Num(2))
  IN AssemblyValue(
       Obj(<<KV("kind", Str("point_mass")), KV("dof", Str("1d")), KV("mass", Num(1))>>),
       DomainValue("interval_1d", length, <<KV("length", length)>>, "x"),
       Obj(<<KV("kind", Str("ideal_spring")), KV("stiffness", stiffness),
             KV("dampingRatio", Get(p, "dampingRatio"))>>),
       <<Fixed("origin"), SpecifiedValue("state.phase", "phase", Get(p, "phase"))>>,
       Obj(<<KV("kind", Str("harmonic_drive")), KV("amplitude", Get(p, "driveAmplitude")),
             KV("frequency", Get(p, "driveFrequency")), KV("phase", Get(p, "drivePhase"))>>),
       Obj(<<KV("kind", Str("damped_shm")), KV("dampingRatio", Get(p, "dampingRatio"))>>))

buildCoupledAssembly(p) ==
  LET characteristicLength ==
        Mul(Num(4), Max2(ToNumber(Get(p, "amplitude1")), ToNumber(Get(p, "amplitude2"))))
      waveSpeed == Div(ToNumber(Get(p, "couplingStiffness")), ToNumber(Get(p, "mass")))
  IN AssemblyValue(
       Obj(<<KV("kind", Str("particle_ensemble")), KV("count", Num(2)), KV("particleMass", Get(p, "mass"))>>),
       DomainValue("interval_1d", characteristicLength, <<KV("length", characteristicLength)>>, "x"),
       Obj(<<KV("kind", Str("ideal_spring")), KV("stiffness", Get(p, "anchorStiffness")),
             KV("dampingRatio", Num(0))>>),
       <<Fixed("left_anchor"), Fixed("right_anchor"),
         SpecifiedValue("coupling", "couplingStiffness", Get(p, "couplingStiffness")),
         SpecifiedValue("mode.phaseOffset", "phaseOffset", Get(p, "phaseOffset"))>>,
       Obj(<<KV("kind", Str("none"))>>),
       Obj(<<KV("kind", Str("wave_equation")), KV("waveSpeed", waveSpeed), KV("transient", Bool(TRUE))>>))

\* range, flight time and apex need sin/cos/sqrt; every domain number is a
\* Math.max(..., 1) of them and is modelled by that lower bound
buildProjectileAssembly(p) ==
  AssemblyValue(
    Obj(<<KV("kind", Str("point_mass")), KV("dof", Str("2d")), KV("mass", Get(p, "mass"))>>),
    DomainValue("rect_2d", Num(1), <<KV("width", Num(1)), KV("height", Num(1))>>, "x"),
    Obj(<<KV("kind", Str("inertial_particle")), KV("dragCoefficient", Get(p, "dragCoefficient"))>>),
    <<SpecifiedValue("state.y0", "initialHeight", Get(p, "initialHeight")), Free("state.trajectory")>>,
    Obj(<<KV("kind", Str("constant_field")), KV("quantity", Str("gravity")),
          KV("magnitude", Neg(ToNumber(Get(p, "gravity")))), KV("direction", Str("y"))>>),
    Obj(<<KV("kind", Str("kinematic")), KV("transient", Bool(TRUE)),
          KV("referenceFrame", Str("inertial"))>>))

buildUniformCircularAssembly(p) ==
  LET size == Max2(Mul(ToNumber(Get(p, "radius")), Num(4)), Num(1))
  IN AssemblyValue(
       Obj(<<KV("kind", Str("point_mass")), KV("dof", Str("3d")), KV("mass", Get(p, "mass"))>>),
       DomainValue("box_3d", size, <<KV("width", size), KV("height", size), KV("depth", size)>>, "z"),
       Obj(<<KV("kind", Str("inertial_particle")), KV("dragCoefficient", Num(0))>>),
       <<Obj(<<KV("type", Str("periodic")), KV("target", Str("trajectory")),
               KV("pairedTarget", Str("trajectory_start"))>>),
         SpecifiedValue("orbit.radius", "radius", Get(p, "radius"))>>,
       Obj(<<KV("kind", Str("none"))>>),
       Obj(<<KV("kind", Str("uniform_circular")), KV("transient", Bool(TRUE)),
             KV("plane", Get(p, "plane"))>>))

buildKeplerAssembly(p) ==
  LET apoapsis == Mul(ToNumber(Get(p, "semiMajorAxis")), Add(Num(1), ToNumber(Get(p, "eccentricity"))))
      size == Max2(Mul(apoapsis, Num(4)), Num(1))
  IN AssemblyValue(
       Obj(<<KV("kind", Str("particle_ensemble")), KV("count", Num(2)), KV("particleMass", Num(1))>>),
       DomainValue("box_3d", size, <<KV("width", size), KV("height", size), KV("depth", size)>>, "z"),
       Obj(<<KV("kind", Str("inertial_particle")), KV("dragCoefficient", Num(0))>>),
       <<Fixed("primary"), Free("secondary")>>,
       Obj(<<KV("kind", Str("central_inverse_square")), KV("mu", Get(p, "gravitationalParameter")),
             KV("center", Obj(<<KV("x", Num(0)), KV("y", Num(0)), KV("z", Num(0))>>))>>),
       Obj(<<KV("kind", Str("orbital_two_body")), KV("transient", Bool(TRUE)),
             KV("frame", Str("inertial"))>>))

\* a ?? b
Coalesce(a, b) == IF a.t \in {"undef", "null"} THEN b ELSE a

buildLaminarAssembly(p) ==
  LET g == Get(p, "geometryType")
      dh == Get(p, "hydraulicDiameter")
      pipeDiameter == Coalesce(Get(p, "pipeDiameter"), dh)
      channelWidth == Coalesce(Get(p, "channelWidth"), dh)
      channelHeight ==
        IF Get(p, "channelHeight").t \in {"undef", "null"}
        THEN Div(ToNumber(dh), Num(2)) ELSE Get(p, "channelHeight")
      rectangularWidth == Coalesce(Get(p, "rectangularWidth"), channelWidth)
      rectangularHeight == Coalesce(Get(p, "rectangularHeight"), channelHeight)
      annulusOuterDiameter == Coalesce(Get(p, "annulusOuterDiameter"), dh)
      annulusInnerDiameter == Get(p, "annulusInnerDiameter")
      velocity == Get(p, "drivingMechanism") = Str("velocity-driven")
      domain ==
        IF g = Str("pipe")
        THEN DomainValue("pipe", dh, <<KV("length", Get(p, "length")), KV("diameter", pipeDiameter)>>, "x")
        ELSE IF g = Str("annulus")
        THEN DomainValue("pipe", dh,
                         <<KV("length", Get(p, "length")), KV("diameter", annulusOuterDiameter)>>, "x")
        ELSE DomainValue("channel", dh,
               <<KV("length", Get(p, "length")),
                 KV("width", IF g = Str("rectangular_duct") THEN rectangularWidth ELSE channelWidth),
                 KV("height", IF g = Str("rectangular_duct") THEN rectangularHeight ELSE channelHeight)>>,
               "x")
      inletQuantity == IF velocity THEN "meanVelocity" ELSE "pressureGradient"
      inletValue ==
        IF velocity THEN Coalesce(Get(p, "meanVelocity"), Num(0))
        ELSE Coalesce(Get(p, "pressureGradient"), Num(0))
      constraints ==
        <<NoSlip("walls"), SpecifiedValue("inlet", inletQuantity, inletValue),
          SpecifiedValue("outlet", "referencePressure", Num(0))>>
        \o (IF g = Str("annulus") /\ annulusInnerDiameter # Undef
            THEN <<NoSlip("inner_wall"),
                   SpecifiedValue("geometry.annulus.innerDiameter", "innerDiameter", annulusInnerDiameter)>>
            ELSE <<>>)
  IN AssemblyValue(
       Obj(<<KV("kind", Str("field_vector")), KV("dimension", Str("3d")), KV("components", Num(3))>>),
       domain,
       Obj(<<KV("kind", Str("newtonian_fluid")), KV("density", Get(p, "density")),
             KV("dynamicViscosity", Get(p, "dynamicViscosity")),
             KV("thermalConductivity", Get(p, "thermalConductivity")),
             KV("specificHeat", Get(p, "specificHeat"))>>),
       constraints,
       IF Get(p, "drivingMechanism") = Str("pressure-driven")
       THEN Obj(<<KV("kind", Str("pressure_gradient")),
                  KV("gradient", Coalesce(Get(p, "pressureGradient"), Num(0))), KV("axis", Str("x"))>>)
       ELSE Obj(<<KV("kind", Str("none"))>>),
       Obj(<<KV("kind", Str("navier_stokes")), KV("incompressible", Bool(TRUE)),
             KV("newtonian", Bool(TRUE)), KV("transient", Get(p, "transient"))>>))

(***************************************************************************)
(* fluid_system: nested canonical shapes                                   *)
(***************************************************************************)
GeometryOf(type, dims) ==
  ZObject(<<Fld("type", Lit(type)), Fld("characteristicLength", PositiveFiniteNumber),
            Fld("dimensions", ZObject([i \in 1..Len(dims) |-> Fld(dims[i], PositiveFiniteNumber)])),
            Fld("orientation", Orientation)>>)
Geometry ==
  ZDiscriminatedUnion("type",
    <<GeometryOf("pipe", <<"length", "diameter">>),
      GeometryOf("channel", <<"length", "width", "height">>),
      GeometryOf("plate", <<"length", "width">>),
      GeometryOf("cavity", <<"length", "width", "height">>)>>)
FluidProperties ==
  ZObject(<<Fld("density", PositiveFiniteNumber), Fld("dynamicViscosity", PositiveFiniteNumber),
            Opt("thermalConductivity", PositiveFiniteNumber), Opt("specificHeat", PositiveFiniteNumber)>>)
BoundaryConditionType ==
  ZEnum({"no-slip", "slip", "specified-velocity", "specified-pressure", "symmetry"})
BoundaryConditions ==
  ZObject(<<Fld("inlet", BoundaryConditionType), Fld("outlet", BoundaryConditionType),
            Fld("walls", BoundaryConditionType)>>)
FlowConfiguration ==
  ZObject(<<Fld("drivingMechanism", ZEnum({"pressure-driven", "velocity-driven"})),
            Opt("inletVelocity", FiniteNumber), Opt("pressureGradient", FiniteNumber),
            Fld("boundaryConditions", BoundaryConditions), Fld("transient", ZBoolean)>>)
FlowRegime ==
  ZObject(<<Fld("reynoldsNumber", FiniteNumber),
            Fld("regimeType", ZEnum({"laminar", "transitional", "turbulent"})),
            Opt("turbulenceModel", ZString(0))>>)
TURBULENCE_MODELS == {"k-epsilon", "k-omega", "spalart-allmaras"}

(***************************************************************************)
(* validateStructure of the schema modules                                 *)
(***************************************************************************)
\* typeof x !== "number" || Number.isNaN(x)
NotANumber(v) == v.t \notin {"num", "inf", "ninf"}

validateStructure_harmonic_oscillator(params) ==
  (IF NotANumber(Get(params, "amplitude")) THEN <<Issue("amplitude", "must be a finite number", <<>>)>> ELSE <<>>)
  \o (IF NotANumber(Get(params, "frequency")) THEN <<Issue("frequency", "must be a finite number", <<>>)>> ELSE <<>>)
  \o (IF NotANumber(Get(params, "phase")) THEN <<Issue("phase", "must be a finite number", <<>>)>> ELSE <<>>)

\* canonical safeParse first; the assembly is built and parsed only when it passed
CanonicalThenAssembly(shape, assemblyShape, params, assembly) ==
  LET canonicalResult == safeParse(shape, Obj(params))
  IN IF canonicalResult # <<>> THEN canonicalResult
     ELSE Prefixed(safeParse(assemblyShape, assembly))

validateStructure_damped_oscillator(params) ==
  CanonicalThenAssembly(DampedOscillator, DampedOscillatorAssembly, params, buildDampedAssembly(params))
validateStructure_driven_oscillator(params) ==
  CanonicalThenAssembly(DrivenOscillator, DrivenOscillatorAssembly, params, buildDrivenAssembly(params))
validateStructure_coupled_oscillators_2mass(params) ==
  CanonicalThenAssembly(CoupledOscillators2Mass, CoupledOscillatorsAssembly, params, buildCoupledAssembly(params))
validateStructure_projectile_motion(params) ==
  CanonicalThenAssembly(ProjectileMotion, ProjectileAssembly, params, buildProjectileAssembly(params))
validateStructure_uniform_circular_motion(params) ==
  CanonicalThenAssembly(UniformCircularMotion, UniformCircularAssembly, params,
                        buildUniformCircularAssembly(params))
validateStructure_kepler_two_body_orbit(params) ==
  CanonicalThenAssembly(KeplerTwoBodyOrbit, KeplerAssembly, params, buildKeplerAssembly(params))
validateStructure_laminar_internal_flow(params) ==
  CanonicalThenAssembly(LaminarInternalFlow, LaminarFlowAssembly, params, buildLaminarAssembly(params))

\* `<name> invalid: ${issues[0].message}`
FirstIssue(name, ty, v) ==
  LET r == safeParse(ty, v)
  IN IF r = <<>> THEN <<>> ELSE <<Issue(name \o " invalid", r[1].via, <<>>)>>

validateStructure_fluid_system(params) ==
  FirstIssue("geometry", Geometry, Get(params, "geometry"))
  \o FirstIssue("fluidProperties", FluidProperties, Get(params, "fluidProperties"))
  \o FirstIssue("flowConfiguration", FlowConfiguration, Get(params, "flowConfiguration"))
  \o FirstIssue("flowRegime", FlowRegime, Get(params, "flowRegime"))

(***************************************************************************)
(* contracts of the schema modules: one entry per contract function, NoErr *)
(* for null, the message otherwise                                         *)
(***************************************************************************)
Msg(text) == Err("contract", text, "", <<>>)
\* a TypeError raised by reading a property of undefined or null
TypeError(what) == Err("TypeError", what, "", <<>>)

\* JS relational operators on arbitrary operands
JsGt(a, b) == Gt(ToNumber(a), ToNumber(b))
JsGe(a, b) == Ge(ToNumber(a), ToNumber(b))
JsLt(a, b) == Lt(ToNumber(a), ToNumber(b))
JsLe(a, b) == Le(ToNumber(a), ToNumber(b))

\* (p) => (cond ? null : message)
Must(cond, text) == IF cond THEN NoErr ELSE Msg(text)

\* assembly.<pillar>.<field>
Tag(assembly, pillar, field) == Get(Get(assembly.o, pillar).o, field)
ConstraintList(assembly) == Get(assembly.o, "constraints").a
SomeConstraint(assembly, P(_)) ==
  \E i \in 1..Len(ConstraintList(assembly)) : P(ConstraintList(assembly)[i].o)

contracts_harmonic_oscillator(p) ==
  << Must(JsGt(Get(p, "amplitude"), Num(0)), "amplitude must be > 0"),
     Must(JsGt(Get(p, "frequency"), Num(0)), "frequency must be > 0") >>

contracts_damped_oscillator(p) ==
  LET assembly == buildDampedAssembly(p) IN
  << Must(JsGt(Get(p, "amplitude"), Num(0)), "amplitude must be > 0"),
     Must(JsGt(Get(p, "frequency"), Num(0)), "frequency must be > 0"),
     Must(JsGe(Get(p, "dampingRatio"), Num(0)), "dampingRatio must be >= 0"),
     IF Tag(assembly, "evolution", "kind") # Str("damped_shm")
       THEN Msg("damped_oscillator requires evolution kind damped_shm")
     ELSE IF Tag(assembly, "state", "kind") # Str("point_mass") \/ Tag(assembly, "state", "dof") # Str("1d")
       THEN Msg("damped_oscillator requires state kind point_mass with dof 1d")
     ELSE IF Tag(assembly, "domain", "kind") # Str("interval_1d")
       THEN Msg("damped_oscillator requires domain kind interval_1d")
     ELSE IF Tag(assembly, "material", "kind") # Str("ideal_spring")
       THEN Msg("damped_oscillator requires material kind ideal_spring")
     ELSE IF Tag(assembly, "forcing", "kind") # Str("none")
       THEN Msg("damped_oscillator requires forcing kind none")
     ELSE NoErr,
     Must(SomeConstraint(assembly, LAMBDA c : Get(c, "type") = Str("fixed")),
          "damped_oscillator requires at least one fixed constraint") >>

contracts_driven_oscillator(p) ==
  LET assembly == buildDrivenAssembly(p) IN
  << Must(JsGt(Get(p, "amplitude"), Num(0)), "amplitude must be > 0"),
     Must(JsGt(Get(p, "naturalFrequency"), Num(0)), "naturalFrequency must be > 0"),
     Must(JsGt(Get(p, "driveAmplitude"), Num(0)), "driveAmplitude must be > 0"),
     Must(JsGt(Get(p, "driveFrequency"), Num(0)), "driveFrequency must be > 0"),
     Must(JsGe(Get(p, "dampingRatio"), Num(0)), "dampingRatio must be >= 0"),
     IF Tag(assembly, "evolution", "kind") # Str("damped_shm")
       THEN Msg("driven_oscillator requires evolution kind damped_shm")
     ELSE IF Tag(assembly, "state", "kind") # Str("point_mass") \/ Tag(assembly, "state", "dof") # Str("1d")
       THEN Msg("driven_oscillator requires state kind point_mass with dof 1d")
     ELSE IF Tag(assembly, "domain", "kind") # Str("interval_1d")
       THEN Msg("driven_oscillator requires domain kind interval_1d")
     ELSE IF Tag(assembly, "material", "kind") # Str("ideal_spring")
       THEN Msg("driven_oscillator requires material kind ideal_spring")
     ELSE IF Tag(assembly, "forcing", "kind") # Str("harmonic_drive")
       THEN Msg("driven_oscillator requires forcing kind harmonic_drive")
     ELSE NoErr,
     Must(SomeConstraint(assembly, LAMBDA c : Get(c, "type") = Str("fixed")),
          "driven_oscillator requires at least one fixed constraint") >>

contracts_coupled_oscillators_2mass(p) ==
  LET assembly == buildCoupledAssembly(p)
      fixedCount == Cardinality({i \in 1..Len(ConstraintList(assembly)) :
                                   Get(ConstraintList(assembly)[i].o, "type") = Str("fixed")})
  IN
  << Must(JsGt(Get(p, "mass"), Num(0)), "mass must be > 0"),
     Must(JsGt(Get(p, "anchorStiffness"), Num(0)), "anchorStiffness must be > 0"),
     Must(JsGt(Get(p, "couplingStiffness"), Num(0)), "couplingStiffness must be > 0"),
     IF Tag(assembly, "state", "kind") # Str("particle_ensemble") \/ Tag(assembly, "state", "count") # Num(2)
       THEN Msg("coupled_oscillators_2mass requires particle_ensemble state with count=2")
     ELSE IF Tag(assembly, "domain", "kind") # Str("interval_1d")
       THEN Msg("coupled_oscillators_2mass requires domain kind interval_1d")
     ELSE IF Tag(assembly, "material", "kind") # Str("ideal_spring")
       THEN Msg("coupled_oscillators_2mass requires material kind ideal_spring")
     ELSE IF Tag(assembly, "forcing", "kind") # Str("none")
       THEN Msg("coupled_oscillators_2mass requires forcing kind none")
     ELSE IF Tag(assembly, "evolution", "kind") # Str("wave_equation")
       THEN Msg("coupled_oscillators_2mass requires evolution kind wave_equation")
     ELSE NoErr,
     IF fixedCount < 2
       THEN Msg("coupled_oscillators_2mass requires two fixed anchor constraints")
     ELSE IF ~SomeConstraint(assembly, LAMBDA c : /\ Get(c, "type") = Str("specified_value")
                                                  /\ Get(c, "quantity") = Str("couplingStiffness"))
       THEN Msg("coupled_oscillators_2mass requires a specified couplingStiffness constraint")
     ELSE NoErr >>

contracts_projectile_motion(p) ==
  LET assembly == buildProjectileAssembly(p) IN
  << Must(JsGt(Get(p, "initialSpeed"), Num(0)), "initialSpeed must be > 0"),
     Must(JsGt(Get(p, "gravity"), Num(0)), "gravity must be > 0"),
     Must(JsGt(Get(p, "launchAngleDeg"), Num(0)) /\ JsLt(Get(p, "launchAngleDeg"), Num(90)),
          "launchAngleDeg must be in (0, 90)"),
     IF Tag(assembly, "state", "kind") # Str("point_mass") \/ Tag(assembly, "state", "dof") # Str("2d")
       THEN Msg("projectile_motion requires a 2D point_mass state")
     ELSE IF Tag(assembly, "domain", "kind") # Str("rect_2d")
       THEN Msg("projectile_motion requires domain kind rect_2d")
     ELSE IF Tag(assembly, "material", "kind") # Str("inertial_particle")
       THEN Msg("projectile_motion requires material kind inertial_particle")
     ELSE IF Tag(assembly, "forcing", "kind") # Str("constant_field")
             \/ Tag(assembly, "forcing", "quantity") # Str("gravity")
       THEN Msg("projectile_motion requires constant_field forcing with quantity=gravity")
     ELSE IF Tag(assembly, "evolution", "kind") # Str("kinematic")
       THEN Msg("projectile_motion requires evolution kind kinematic")
     ELSE NoErr,
     Must(SomeConstraint(assembly, LAMBDA c : /\ Get(c, "type") = Str("specified_value")
                                              /\ Get(c, "quantity") = Str("initialHeight")),
          "projectile_motion requires a specified initialHeight constraint") >>

contracts_uniform_circular_motion(p) ==
  LET assembly == buildUniformCircularAssembly(p) IN
  << Must(JsGt(Get(p, "radius"), Num(0)), "radius must be > 0"),
     Must(JsGt(Get(p, "angularSpeed"), Num(0)), "angularSpeed must be > 0"),
     IF Tag(assembly, "state", "kind") # Str("point_mass") \/ Tag(assembly, "state", "dof") # Str("3d")
       THEN Msg("uniform_circular_motion requires a 3D point_mass state")
     ELSE IF Tag(assembly, "domain", "kind") # Str("box_3d")
       THEN Msg("uniform_circular_motion requires domain kind box_3d")
     ELSE IF Tag(assembly, "material", "kind") # Str("inertial_particle")
       THEN Msg("uniform_circular_motion requires material kind inertial_particle")
     ELSE IF Tag(assembly, "forcing", "kind") # Str("none")
       THEN Msg("uniform_circular_motion requires forcing kind none")
     ELSE IF Tag(assembly, "evolution", "kind") # Str("uniform_circular")
       THEN Msg("uniform_circular_motion requires evolution kind uniform_circular")
     ELSE NoErr,
     Must(SomeConstraint(assembly, LAMBDA c : Get(c, "type") = Str("periodic")),
          "uniform_circular_motion requires a periodic trajectory constraint") >>

contracts_kepler_two_body_orbit(p) ==
  LET assembly == buildKeplerAssembly(p) IN
  << Must(JsGt(Get(p, "semiMajorAxis"), Num(0)), "semiMajorAxis must be > 0"),
     Must(JsGe(Get(p, "eccentricity"), Num(0)) /\ JsLt(Get(p, "eccentricity"), Num(1)),
          "eccentricity must satisfy 0 <= e < 1"),
     Must(JsGt(Get(p, "gravitationalParameter"), Num(0)), "gravitationalParameter must be > 0"),
     IF Tag(assembly, "state", "kind") # Str("particle_ensemble") \/ Tag(assembly, "state", "count") # Num(2)
       THEN Msg("kepler_two_body_orbit requires particle_ensemble state with count=2")
     ELSE IF Tag(assembly, "domain", "kind") # Str("box_3d")
       THEN Msg("kepler_two_body_orbit requires domain kind box_3d")
     ELSE IF Tag(assembly, "material", "kind") # Str("inertial_particle")
       THEN Msg("kepler_two_body_orbit requires material kind inertial_particle")
     ELSE IF Tag(assembly, "forcing", "kind") # Str("central_inverse_square")
       THEN Msg("kepler_two_body_orbit requires forcing kind central_inverse_square")
     ELSE IF Tag(assembly, "evolution", "kind") # Str("orbital_two_body")
       THEN Msg("kepler_two_body_orbit requires evolution kind orbital_two_body")
     ELSE NoErr,
     Must(SomeConstraint(assembly, LAMBDA c : /\ Get(c, "type") = Str("fixed")
                                              /\ Get(c, "target") = Str("primary")),
          "kepler_two_body_orbit requires a fixed primary-body constraint") >>

ReynoldsLimit == 2300

\* (p) => (p.reynoldsNumber < 2300 ? null : ...)
ReynoldsGateMutant(p) == NoErr
ReynoldsGate(p) ==
  Must(JsLt(Get(p, "reynoldsNumber"), Num(ReynoldsLimit)),
       "laminar_internal_flow requires Reynolds number < 2300")

contracts_laminar_internal_flow(p) ==
  LET assembly == buildLaminarAssembly(p)
      g == Get(p, "geometryType")
      inner == Get(p, "annulusInnerDiameter")
      outer == Get(p, "annulusOuterDiameter")
      mech == Get(p, "drivingMechanism")
  IN
  << Must(JsGe(Get(p, "reynoldsNumber"), Num(0)), "reynoldsNumber must be >= 0"),
     ReynoldsGate(p),
     IF g = Str("annulus") /\ (inner = Undef \/ outer = Undef)
       THEN Msg("Annulus geometry requires both annulusInnerDiameter and annulusOuterDiameter")
     ELSE IF g = Str("annulus") /\ JsLe(outer, inner)
       THEN Msg("Annulus geometry requires annulusOuterDiameter > annulusInnerDiameter")
     ELSE NoErr,
     IF g = Str("rectangular_duct")
        /\ (Get(p, "rectangularWidth") = Undef \/ Get(p, "rectangularHeight") = Undef)
       THEN Msg("Rectangular duct geometry requires both rectangularWidth and rectangularHeight")
     ELSE NoErr,
     IF g = Str("channel")
        /\ ~(Get(p, "channelWidth") # Undef /\ Get(p, "channelHeight") # Undef)
        /\ Get(p, "hydraulicDiameter") = Undef
       THEN Msg("Channel geometry requires channelWidth + channelHeight or explicit hydraulicDiameter")
     ELSE NoErr,
     IF mech = Str("velocity-driven")
        /\ (Get(p, "meanVelocity") = Undef \/ JsLe(Get(p, "meanVelocity"), Num(0)))
       THEN Msg("velocity-driven flow requires meanVelocity > 0")
     ELSE IF mech = Str("velocity-driven") /\ Get(p, "pressureGradient") # Undef
       THEN Msg("velocity-driven flow must not set pressureGradient")
     ELSE NoErr,
     IF mech = Str("pressure-driven")
        /\ (Get(p, "pressureGradient") = Undef \/ Get(p, "pressureGradient") = Num(0))
       THEN Msg("pressure-driven flow requires non-zero pressureGradient")
     ELSE IF mech = Str("pressure-driven") /\ Get(p, "meanVelocity") # Undef
       THEN Msg("pressure-driven flow must not set meanVelocity")
     ELSE NoErr,
     IF Tag(assembly, "state", "kind") # Str("field_vector") \/ Tag(assembly, "state", "dimension") # Str("3d")
       THEN Msg("laminar_internal_flow requires a 3D field_vector state")
     ELSE IF Tag(assembly, "material", "kind") # Str("newtonian_fluid")
       THEN Msg("laminar_internal_flow requires material kind newtonian_fluid")
     ELSE IF Tag(assembly, "evolution", "kind") # Str("navier_stokes")
             \/ ~Truthy(Tag(assembly, "evolution", "incompressible"))
             \/ ~Truthy(Tag(assembly, "evolution", "newtonian"))
       THEN Msg("laminar_internal_flow requires incompressible Newtonian Navier-Stokes evolution descriptor")
     ELSE IF mech = Str("pressure-driven") /\ Tag(assembly, "forcing", "kind") # Str("pressure_gradient")
       THEN Msg("pressure-driven laminar flow requires pressure_gradient forcing")
     ELSE IF mech = Str("velocity-driven") /\ Tag(assembly, "forcing", "kind") # Str("none")
       THEN Msg("velocity-driven laminar flow requires no external forcing descriptor")
     ELSE NoErr >>

\* o.k where o may be anything: a TypeError on undefined/null, undefined on a
\* primitive, the property on an object
Prop(o, k) == IF o.t = "obj" THEN Get(o.o, k) ELSE Undef
Nullish(v) == v.t \in {"undef", "null"}

\* hasInletVelocity === hasPressureGradient is the violation
ExactlyOneDriveInputMutant(hasInletVelocity, hasPressureGradient) == TRUE
ExactlyOneDriveInput(hasInletVelocity, hasPressureGradient) ==
  hasInletVelocity # hasPressureGradient

contracts_fluid_system(p) ==
  LET fr == Get(p, "flowRegime")
      fc == Get(p, "flowConfiguration")
      model == Prop(fr, "turbulenceModel")
      regime == Prop(fr, "regimeType")
      hasInletVelocity == Prop(fc, "inletVelocity") # Undef
      hasPressureGradient == Prop(fc, "pressureGradient") # Undef
  IN
  << IF Nullish(fr) THEN TypeError("flowRegime")
     ELSE Must(JsGe(Prop(fr, "reynoldsNumber"), Num(0)), "reynoldsNumber must be >= 0"),
     IF Nullish(fr) THEN TypeError("flowRegime")
     ELSE IF model = Undef THEN NoErr
     ELSE IF regime # Str("turbulent")
       THEN Msg("turbulenceModel is only allowed when regimeType is turbulent")
     ELSE IF ~(model.t = "str" /\ model.s \in TURBULENCE_MODELS)
       THEN Msg("Unknown turbulenceModel")
     ELSE NoErr,
     IF Nullish(fr) THEN TypeError("flowRegime")
     ELSE Must(~(regime = Str("laminar") /\ model # Undef),
               "Laminar regime must not include turbulenceModel"),
     IF Nullish(fc) THEN TypeError("flowConfiguration")
     ELSE Must(ExactlyOneDriveInput(hasInletVelocity, hasPressureGradient),
               "Provide exactly one of inletVelocity or pressureGradient"),
     IF Nullish(fc) THEN TypeError("flowConfiguration")
     ELSE Must(~(Prop(fc, "drivingMechanism") = Str("velocity-driven") /\ ~hasInletVelocity),
               "velocity-driven flow requires inletVelocity"),
     IF Nullish(fc) THEN TypeError("flowConfiguration")
     ELSE Must(~(Prop(fc, "drivingMechanism") = Str("pressure-driven") /\ ~hasPressureGradient),
               "pressure-driven flow requires pressureGradient") >>

(***************************************************************************)
(* schemaRegistry.ts : the registry and getSchema                          *)
(***************************************************************************)
RegisteredConcepts ==
  <<"harmonic_oscillator", "damped_oscillator", "driven_oscillator",
    "coupled_oscillators_2mass", "projectile_motion", "uniform_circular_motion",
    "kepler_two_body_orbit", "laminar_internal_flow", "fluid_system">>

\* a registered SceneSchema object, identified by its schemaId
Schema(id) == [t |-> "schema", id |-> id]

\* concept -> version -> schema
registry ==
  [i \in 1..Len(RegisteredConcepts) |->
     KV(RegisteredConcepts[i], <<KV("v1", Schema(RegisteredConcepts[i]))>>)]

\* value[key] for a value that is not one of the literals above: a function
\* or Object.prototype itself still answers the inherited property names
InheritedProperty(key) ==
  CASE key = "constructor" -> Host("function Function() { [native code] }")
    [] key = "toString" -> Host("function toString() { [native code] }")
    [] key = "__proto__" -> Host("[object Function]")
    [] OTHER -> Undef

\* an exact-match lookup that answers own properties only
getSchemaMutant(concept, version) ==
  IF Has(registry, concept) /\ Has(Get(registry, concept), version)
  THEN Get(Get(registry, concept), version) ELSE Null

\* return registry[concept]?.[version] ?? null;
getSchema(concept, version) ==
  LET versions == IF Has(registry, concept) THEN Obj(Get(registry, concept))
                  ELSE ObjectPrototype(concept)
      found == IF Nullish(versions) THEN Undef
               ELSE IF versions.t = "obj"
               THEN (IF Has(versions.o, version) THEN Get(versions.o, version)
                     ELSE ObjectPrototype(version))
               ELSE InheritedProperty(version)
  IN Coalesce(found, Null)

normalizeOf(id, rawParams) ==
  CASE id = "harmonic_oscillator" -> normalize_harmonic_oscillator(rawParams)
    [] id = "damped_oscillator" -> normalize_damped_oscillator(rawParams)
    [] id = "driven_oscillator" -> normalize_driven_oscillator(rawParams)
    [] id = "coupled_oscillators_2mass" -> normalize_coupled_oscillators_2mass(rawParams)
    [] id = "projectile_motion" -> normalize_projectile_motion(rawParams)
    [] id = "uniform_circular_motion" -> normalize_uniform_circular_motion(rawParams)
    [] id = "kepler_two_body_orbit" -> normalize_kepler_two_body_orbit(rawParams)
    [] id = "laminar_internal_flow" -> normalize_laminar_internal_flow(rawParams)
    [] id = "fluid_system" -> normalize_fluid_system(rawParams)

validateStructureOf(id, params) ==
  CASE id = "harmonic_oscillator" -> validateStructure_harmonic_oscillator(params)
    [] id = "damped_oscillator" -> validateStructure_damped_oscillator(params)
    [] id = "driven_oscillator" -> validateStructure_driven_oscillator(params)
    [] id = "coupled_oscillators_2mass" -> validateStructure_coupled_oscillators_2mass(params)
    [] id = "projectile_motion" -> validateStructure_projectile_motion(params)
    [] id = "uniform_circular_motion" -> validateStructure_uniform_circular_motion(params)
    [] id = "kepler_two_body_orbit" -> validateStructure_kepler_two_body_orbit(params)
    [] id = "laminar_internal_flow" -> validateStructure_laminar_internal_flow(params)
    [] id = "fluid_system" -> validateStructure_fluid_system(params)

contractsOf(id, params) ==
  CASE id = "harmonic_oscillator" -> contracts_harmonic_oscillator(params)
    [] id = "damped_oscillator" -> contracts_damped_oscillator(params)
    [] id = "driven_oscillator" -> contracts_driven_oscillator(params)
    [] id = "coupled_oscillators_2mass" -> contracts_coupled_oscillators_2mass(params)
    [] id = "projectile_motion" -> contracts_projectile_motion(params)
    [] id = "uniform_circular_motion" -> contracts_uniform_circular_motion(params)
    [] id = "kepler_two_body_orbit" -> contracts_kepler_two_body_orbit(params)
    [] id = "laminar_internal_flow" -> contracts_laminar_internal_flow(params)
    [] id = "fluid_system" -> contracts_fluid_system(params)

\* schema.normalize(...) on whatever getSchema handed back
CallNormalize(schema, rawParams) ==
  IF schema.t = "schema" THEN normalizeOf(schema.id, rawParams)
  ELSE Throw(TypeError("schema.normalize is not a function"))

(***************************************************************************)
(* validateScenePlan results                                               *)
(***************************************************************************)
Invalid(errors) == [valid |-> FALSE, errors |-> errors, canonicalScenePlan |-> Undef]
Valid(plan) == [valid |-> TRUE, errors |-> <<>>, canonicalScenePlan |-> plan]
\* no call has returned yet
Pending == [valid |-> FALSE, errors |-> <<>>, canonicalScenePlan |-> Null]

\* `Normalization failed: ${e.message}`
WrappedMutant(e) == e
Wrapped(e) == [e EXCEPT !.wrap = "Normalization failed"]

\* !x || typeof x !== "string"
MissingOrInvalid(v) == ~Truthy(v) \/ v.t # "str"

TopLevelErrors(plan) ==
  (IF MissingOrInvalid(Prop(plan, "concept"))
   THEN <<Err("Missing or invalid field", "concept", "", <<>>)>> ELSE <<>>)
  \o (IF MissingOrInvalid(Prop(plan, "schemaVersion"))
      THEN <<Err("Missing or invalid field", "schemaVersion", "", <<>>)>> ELSE <<>>)

\* !scenePlan || typeof scenePlan !== "object"
NotAnObject(plan) == ~Truthy(plan) \/ ~IsObjectType(plan)

(***************************************************************************)
(* exportTrainingData.js : the plain-JS mirror behind POST /validate-plan  *)
(***************************************************************************)
isFiniteNumber(value) == value.t = "num"

ensureFiniteNumber(name, value) ==
  IF ~isFiniteNumber(value) THEN <<Err("must be a finite number", name, "", <<>>)>> ELSE <<>>

RECURSIVE EnsureEach(_, _, _)
\* for (const key of [...]) ensureFiniteNumber(key, canonical[key], errors)
EnsureEach(canonical, keys, i) ==
  IF i > Len(keys) THEN <<>>
  ELSE ensureFiniteNumber(keys[i], Get(canonical, keys[i])) \o EnsureEach(canonical, keys, i + 1)

RECURSIVE EnsureEachSet(_, _, _)
\* if (canonical.k !== undefined) ensureFiniteNumber("k", canonical.k, errors)
EnsureEachSet(canonical, keys, i) ==
  IF i > Len(keys) THEN <<>>
  ELSE (IF Get(canonical, keys[i]) # Undef
        THEN ensureFiniteNumber(keys[i], Get(canonical, keys[i])) ELSE <<>>)
       \o EnsureEachSet(canonical, keys, i + 1)

\* if (cond) errors.push(text)
PushIf(cond, text) == IF cond THEN <<Msg(text)>> ELSE <<>>

RECURSIVE JsAliasLoop(_, _, _, _, _)
JsAliasLoop(entries, aliasMap, i, seen, canonical) ==
  IF i > Len(entries) THEN Ok(canonical)
  ELSE LET key == entries[i][1]
           target == Lookup(aliasMap, key)
       IN IF ~Truthy(target)
          THEN Throw(Err("Unknown parameter", key, "", Keys(aliasMap)))
          ELSE IF target \in seen
          THEN Throw(Err("Duplicate mapping", PropertyKey(target), key, <<>>))
          ELSE JsAliasLoop(entries, aliasMap, i + 1, seen \cup {target},
                           Put(canonical, PropertyKey(target), entries[i][2]))

normalizeWithAliases(raw, aliasMap) == JsAliasLoop(OwnEntries(raw), aliasMap, 1, {}, <<>>)

\* the tail every validator shares: the type checks, the range checks only
\* when no type check failed, then return { canonical, errors }
Checked(n, typeErrors(_), rangeErrors(_)) ==
  IF n.thrown THEN [thrown |-> TRUE, error |-> n.error, canonical |-> Undef, errors |-> <<>>]
  ELSE [thrown |-> FALSE, error |-> NoErr, canonical |-> Obj(n.value),
        errors |-> IF typeErrors(n.value) = <<>> THEN rangeErrors(n.value) ELSE typeErrors(n.value)]

validateHarmonic(rawParams) ==
  Checked(
    Default(Require(Require(normalizeWithAliases(rawParams, PARAM_MAP_harmonic_oscillator),
                            "amplitude", <<"A">>), "frequency", <<"f">>), "phase", Num(0)),
    LAMBDA c : EnsureEach(c, <<"amplitude", "frequency", "phase">>, 1),
    LAMBDA c : PushIf(JsLe(Get(c, "amplitude"), Num(0)), "amplitude must be > 0")
               \o PushIf(JsLe(Get(c, "frequency"), Num(0)), "frequency must be > 0"))

validateDamped(rawParams) ==
  Checked(
    Default(Default(Require(Require(normalizeWithAliases(rawParams, PARAM_MAP_damped_oscillator),
                                    "amplitude", <<"A">>), "frequency", <<"f">>),
                    "dampingRatio", Rat(5, 100)), "phase", Num(0)),
    LAMBDA c : EnsureEach(c, <<"amplitude", "frequency", "dampingRatio", "phase">>, 1),
    LAMBDA c : PushIf(JsLe(Get(c, "amplitude"), Num(0)), "amplitude must be > 0")
               \o PushIf(JsLe(Get(c, "frequency"), Num(0)), "frequency must be > 0")
               \o PushIf(JsLt(Get(c, "dampingRatio"), Num(0)), "dampingRatio must be >= 0"))

validateDriven(rawParams) ==
  Checked(
    Default(Default(Default(
      DefaultFrom(DefaultFrom(
        Require(Require(normalizeWithAliases(rawParams, PARAM_MAP_driven_oscillator),
                        "amplitude", <<"A">>), "naturalFrequency", <<"fn">>),
        "driveAmplitude", "amplitude"), "driveFrequency", "naturalFrequency"),
      "dampingRatio", Rat(5, 100)), "phase", Num(0)), "drivePhase", Num(0)),
    LAMBDA c : EnsureEach(c, <<"amplitude", "naturalFrequency", "driveAmplitude", "driveFrequency",
                               "dampingRatio", "phase", "drivePhase">>, 1),
    LAMBDA c : PushIf(JsLe(Get(c, "amplitude"), Num(0)), "amplitude must be > 0")
               \o PushIf(JsLe(Get(c, "naturalFrequency"), Num(0)), "naturalFrequency must be > 0")
               \o PushIf(JsLe(Get(c, "driveAmplitude"), Num(0)), "driveAmplitude must be > 0")
               \o PushIf(JsLe(Get(c, "driveFrequency"), Num(0)), "driveFrequency must be > 0")
               \o PushIf(JsLt(Get(c, "dampingRatio"), Num(0)), "dampingRatio must be >= 0"))

validateCoupled(rawParams) ==
  Checked(
    Default(DefaultFrom(
      Require(Require(Require(
        Default(normalizeWithAliases(rawParams, PARAM_MAP_coupled_oscillators_2mass), "mass", Num(1)),
        "anchorStiffness", <<"kAnchor">>), "couplingStiffness", <<"kCoupling">>),
        "amplitude1", <<"A1">>),
      "amplitude2", "amplitude1"), "phaseOffset", Num(0)),
    LAMBDA c : EnsureEach(c, <<"mass", "anchorStiffness", "couplingStiffness", "amplitude1",
                               "amplitude2", "phaseOffset">>, 1),
    LAMBDA c : PushIf(JsLe(Get(c, "mass"), Num(0)), "mass must be > 0")
               \o PushIf(JsLe(Get(c, "anchorStiffness"), Num(0)), "anchorStiffness must be > 0")
               \o PushIf(JsLe(Get(c, "couplingStiffness"), Num(0)), "couplingStiffness must be > 0")
               \o PushIf(JsLe(Get(c, "amplitude1"), Num(0)), "amplitude1 must be > 0")
               \o PushIf(JsLe(Get(c, "amplitude2"), Num(0)), "amplitude2 must be > 0"))

validateProjectile(rawParams) ==
  Checked(
    Default(Default(Default(Default(
      Require(Require(normalizeWithAliases(rawParams, PARAM_MAP_projectile_motion),
                      "initialSpeed", <<"v0">>), "launchAngleDeg", <<"thetaDeg">>),
      "gravity", Rat(981, 100)), "initialHeight", Num(0)), "mass", Num(1)), "dragCoefficient", Num(0)),
    LAMBDA c : EnsureEach(c, <<"initialSpeed", "launchAngleDeg", "gravity", "initialHeight", "mass",
                               "dragCoefficient">>, 1),
    LAMBDA c : PushIf(JsLe(Get(c, "initialSpeed"), Num(0)), "initialSpeed must be > 0")
               \o PushIf(~(JsGt(Get(c, "launchAngleDeg"), Num(0)) /\ JsLt(Get(c, "launchAngleDeg"), Num(90))),
                         "launchAngleDeg must be in (0, 90)")
               \o PushIf(JsLe(Get(c, "gravity"), Num(0)), "gravity must be > 0")
               \o PushIf(JsLt(Get(c, "initialHeight"), Num(0)), "initialHeight must be >= 0")
               \o PushIf(JsLe(Get(c, "mass"), Num(0)), "mass must be > 0")
               \o PushIf(JsLt(Get(c, "dragCoefficient"), Num(0)), "dragCoefficient must be >= 0"))

validateUniformCircular(rawParams) ==
  Checked(
    Default(Default(Default(
      Require(Require(normalizeWithAliases(rawParams, PARAM_MAP_uniform_circular_motion),
                      "radius", <<"r">>), "angularSpeed", <<"omega">>),
      "phase", Num(0)), "mass", Num(1)), "plane", Str("xy")),
    LAMBDA c : EnsureEach(c, <<"radius", "angularSpeed", "phase", "mass">>, 1)
               \o PushIf(Get(c, "plane") \notin {Str("xy"), Str("xz"), Str("yz")},
                         "plane must be one of: xy, xz, yz"),
    LAMBDA c : PushIf(JsLe(Get(c, "radius"), Num(0)), "radius must be > 0")
               \o PushIf(JsLe(Get(c, "angularSpeed"), Num(0)), "angularSpeed must be > 0")
               \o PushIf(JsLe(Get(c, "mass"), Num(0)), "mass must be > 0"))

validateKepler(rawParams) ==
  Checked(
    Default(Default(
      Require(Require(Require(normalizeWithAliases(rawParams, PARAM_MAP_kepler_two_body_orbit),
                              "semiMajorAxis", <<"a">>), "eccentricity", <<"e">>),
              "gravitationalParameter", <<"mu">>),
      "phase", Num(0)), "inclinationDeg", Num(0)),
    LAMBDA c : EnsureEach(c, <<"semiMajorAxis", "eccentricity", "gravitationalParameter", "phase",
                               "inclinationDeg">>, 1),
    LAMBDA c : PushIf(JsLe(Get(c, "semiMajorAxis"), Num(0)), "semiMajorAxis must be > 0")
               \o PushIf(JsLt(Get(c, "eccentricity"), Num(0)) \/ JsGe(Get(c, "eccentricity"), Num(1)),
                         "eccentricity must satisfy 0 <= e < 1")
               \o PushIf(JsLe(Get(c, "gravitationalParameter"), Num(0)), "gravitationalParameter must be > 0")
               \o PushIf(JsLt(Get(c, "inclinationDeg"), Num(0)) \/ JsGt(Get(c, "inclinationDeg"), Num(180)),
                         "inclinationDeg must be in [0, 180]"))

\* statement for statement the function deriveHydraulicDiameter of the schema module
deriveLaminarHydraulicDiameter(res) == IF res.thrown THEN res ELSE deriveHydraulicDiameter(res)

validateLaminar(rawParams) ==
  Checked(
    Default(Default(
      Require(Require(Require(
        deriveLaminarHydraulicDiameter(
          Require(Default(normalizeWithAliases(rawParams, PARAM_MAP_laminar_internal_flow),
                          "geometryType", Str("pipe")),
                  "length", <<"L">>)),
        "density", <<"rho">>), "dynamicViscosity", <<"mu">>), "reynoldsNumber", <<"Re">>),
      "drivingMechanism", Str("velocity-driven")), "transient", Bool(FALSE)),
    LAMBDA c :
      EnsureEach(c, <<"length", "hydraulicDiameter", "density", "dynamicViscosity", "reynoldsNumber">>, 1)
      \o EnsureEachSet(c, <<"meanVelocity", "pressureGradient", "thermalConductivity", "specificHeat",
                            "pipeRadius", "pipeDiameter", "channelWidth", "channelHeight",
                            "rectangularWidth", "rectangularHeight", "annulusInnerDiameter",
                            "annulusOuterDiameter">>, 1)
      \o PushIf(Get(c, "geometryType") \notin {Str("pipe"), Str("channel"), Str("rectangular_duct"), Str("annulus")},
                "geometryType must be one of: pipe, channel, rectangular_duct, annulus")
      \o PushIf(Get(c, "drivingMechanism") \notin {Str("velocity-driven"), Str("pressure-driven")},
                "drivingMechanism must be one of: velocity-driven, pressure-driven")
      \o PushIf(Get(c, "transient").t # "bool", "transient must be a boolean"),
    LAMBDA c :
      PushIf(JsLe(Get(c, "length"), Num(0)), "length must be > 0")
      \o PushIf(JsLe(Get(c, "hydraulicDiameter"), Num(0)), "hydraulicDiameter must be > 0")
      \o PushIf(JsLe(Get(c, "density"), Num(0)), "density must be > 0")
      \o PushIf(JsLe(Get(c, "dynamicViscosity"), Num(0)), "dynamicViscosity must be > 0")
      \o PushIf(JsLt(Get(c, "reynoldsNumber"), Num(0)), "reynoldsNumber must be >= 0")
      \o PushIf(JsGe(Get(c, "reynoldsNumber"), Num(ReynoldsLimit)),
                "laminar_internal_flow requires Reynolds number < 2300")
      \o (IF Get(c, "geometryType") # Str("annulus") THEN <<>>
          ELSE IF Get(c, "annulusInnerDiameter") = Undef \/ Get(c, "annulusOuterDiameter") = Undef
          THEN <<Msg("Annulus geometry requires both annulusInnerDiameter and annulusOuterDiameter")>>
          ELSE PushIf(JsLe(Get(c, "annulusOuterDiameter"), Get(c, "annulusInnerDiameter")),
                      "Annulus geometry requires annulusOuterDiameter > annulusInnerDiameter"))
      \o PushIf(Get(c, "geometryType") = Str("rectangular_duct")
                /\ (Get(c, "rectangularWidth") = Undef \/ Get(c, "rectangularHeight") = Undef),
                "Rectangular duct geometry requires both rectangularWidth and rectangularHeight")
      \o (IF Get(c, "drivingMechanism") # Str("velocity-driven") THEN <<>>
          ELSE PushIf(Get(c, "meanVelocity") = Undef \/ JsLe(Get(c, "meanVelocity"), Num(0)),
                      "velocity-driven flow requires meanVelocity > 0")
               \o PushIf(Get(c, "pressureGradient") # Undef,
                         "velocity-driven flow must not set pressureGradient"))
      \o (IF Get(c, "drivingMechanism") # Str("pressure-driven") THEN <<>>
          ELSE PushIf(Get(c, "pressureGradient") = Undef \/ Get(c, "pressureGradient") = Num(0),
                      "pressure-driven flow requires non-zero pressureGradient")
               \o PushIf(Get(c, "meanVelocity") # Undef,
                         "pressure-driven flow must not set meanVelocity")))

\* if (!canonical.k) throw new Error('Missing required parameter: "k".')
RequireTruthy(res, k) ==
  IF res.thrown THEN res
  ELSE IF ~Truthy(Get(res.value, k)) THEN Throw(Err("Missing required parameter", k, "", <<>>))
  ELSE res

\* !v || typeof v !== "object"
MustBeObject(c, k) ==
  PushIf(~Truthy(Get(c, k)) \/ ~IsObjectType(Get(c, k)), k \o " must be an object")

validateFluidSystem(rawParams) ==
  Checked(
    RequireTruthy(RequireTruthy(RequireTruthy(RequireTruthy(
      normalizeWithAliases(rawParams, PARAM_MAP_fluid_system),
      "geometry"), "fluidProperties"), "flowConfiguration"), "flowRegime"),
    LAMBDA c : MustBeObject(c, "geometry") \o MustBeObject(c, "fluidProperties")
               \o MustBeObject(c, "flowConfiguration") \o MustBeObject(c, "flowRegime"),
    LAMBDA c :
      LET fp == Get(c, "fluidProperties")
          fr == Get(c, "flowRegime")
          fc == Get(c, "flowConfiguration")
          hasInletVelocity == Prop(fc, "inletVelocity") # Undef
          hasPressureGradient == Prop(fc, "pressureGradient") # Undef
      IN PushIf(~isFiniteNumber(Prop(fp, "density")) \/ JsLe(Prop(fp, "density"), Num(0)),
                "fluidProperties.density must be a finite number > 0")
         \o PushIf(~isFiniteNumber(Prop(fp, "dynamicViscosity")) \/ JsLe(Prop(fp, "dynamicViscosity"), Num(0)),
                   "fluidProperties.dynamicViscosity must be a finite number > 0")
         \o PushIf(~isFiniteNumber(Prop(fr, "reynoldsNumber")) \/ JsLt(Prop(fr, "reynoldsNumber"), Num(0)),
                   "flowRegime.reynoldsNumber must be a finite number >= 0")
         \o PushIf(Prop(fr, "regimeType") \notin {Str("laminar"), Str("transitional"), Str("turbulent")},
                   "flowRegime.regimeType must be laminar, transitional, or turbulent")
         \o PushIf(Prop(fr, "turbulenceModel") # Undef /\ Prop(fr, "regimeType") # Str("turbulent"),
                   "turbulenceModel is only allowed when regimeType is turbulent")
         \o PushIf(Prop(fr, "regimeType") = Str("laminar") /\ Prop(fr, "turbulenceModel") # Undef,
                   "Laminar regime must not include turbulenceModel")
         \o PushIf(Prop(fc, "drivingMechanism") \notin {Str("pressure-driven"), Str("velocity-driven")},
                   "flowConfiguration.drivingMechanism must be pressure-driven or velocity-driven")
         \o PushIf(hasInletVelocity = hasPressureGradient,
                   "Provide exactly one of inletVelocity or pressureGradient")
         \o PushIf(Prop(fc, "drivingMechanism") = Str("velocity-driven") /\ ~hasInletVelocity,
                   "velocity-driven flow requires inletVelocity")
         \o PushIf(Prop(fc, "drivingMechanism") = Str("pressure-driven") /\ ~hasPressureGradient,
                   "pressure-driven flow requires pressureGradient"))

\* CONCEPT_VALIDATORS[concept]: an own entry, or what the literal inherits
CONCEPT_VALIDATORS(concept) ==
  IF \E i \in 1..Len(RegisteredConcepts) : RegisteredConcepts[i] = concept
  THEN [t |-> "validator", id |-> concept]
  ELSE ObjectPrototype(concept)

\* validator(raw): one of the nine functions; Object(raw), which hands raw
\* back; or a value whose call or whose result.errors.length throws
CallValidator(validator, raw) ==
  CASE validator.t = "validator" ->
        (CASE validator.id = "harmonic_oscillator" -> validateHarmonic(raw)
           [] validator.id = "damped_oscillator" -> validateDamped(raw)
           [] validator.id = "driven_oscillator" -> validateDriven(raw)
           [] validator.id = "coupled_oscillators_2mass" -> validateCoupled(raw)
           [] validator.id = "projectile_motion" -> validateProjectile(raw)
           [] validator.id = "uniform_circular_motion" -> validateUniformCircular(raw)
           [] validator.id = "kepler_two_body_orbit" -> validateKepler(raw)
           [] validator.id = "laminar_internal_flow" -> validateLaminar(raw)
           [] validator.id = "fluid_system" -> validateFluidSystem(raw))
    [] validator = ObjectPrototype("constructor") /\ Prop(raw, "errors").t = "arr" ->
         [thrown |-> FALSE, error |-> NoErr, canonical |-> Prop(raw, "canonical"),
          errors |-> [i \in 1..Len(Prop(raw, "errors").a) |-> Msg("errors[i]")]]
    [] OTHER ->
         [thrown |-> TRUE, error |-> TypeError("Cannot read properties of undefined (reading 'length')"),
          canonical |-> Undef, errors |-> <<>>]

\* PARAMETER_CONTROL_SPECS[specKey] || []
PARAMETER_CONTROL_SPECS(concept, version) ==
  IF (\E i \in 1..Len(RegisteredConcepts) : RegisteredConcepts[i] = concept)
     /\ concept # "fluid_system" /\ version = "v1"
  THEN Host("PARAMETER_CONTROL_SPECS:" \o concept)
  ELSE Arr(<<>>)

validateScenePlanPayload(plan) ==
  LET concept == Prop(plan, "concept")
      version == Prop(plan, "schemaVersion")
      validator == CONCEPT_VALIDATORS(concept.s)
      \* scenePlan.parameters || {}
      raw == IF Truthy(Prop(plan, "parameters")) THEN Prop(plan, "parameters") ELSE Obj(<<>>)
      r == CallValidator(validator, raw)
  IN IF NotAnObject(plan)
     THEN Invalid(<<Err("scenePlan must be a non-null object", "", "", <<>>)>>)
     ELSE IF TopLevelErrors(plan) # <<>> THEN Invalid(TopLevelErrors(plan))
     ELSE IF ~Truthy(validator)
     THEN Invalid(<<Err("Unknown concept", concept.s, "", RegisteredConcepts)>>)
     ELSE IF version # Str("v1")
     THEN Invalid(<<Err("Unknown schemaVersion", version.s, concept.s, <<>>)>>)
     ELSE IF r.thrown THEN Invalid(<<Wrapped(r.error)>>)
     ELSE IF r.errors # <<>> THEN Invalid(r.errors)
     ELSE Valid(Obj(<<KV("concept", concept), KV("schemaVersion", version),
                      KV("parameters", r.canonical),
                      KV("parameterControlSpecs", PARAMETER_CONTROL_SPECS(concept.s, version.s))>>))

(***************************************************************************)
(* Inputs: the raw scene plans a caller can submit                         *)
(***************************************************************************)
\* number of edits applied to a well-formed plan before it is submitted
MaxEdits == 2

Orient == Obj(<<KV("axis", Str("x")), KV("direction", Str("positive"))>>)
FlowRegimeValue(re, regime) ==
  Obj(<<KV("reynoldsNumber", re), KV("regimeType", Str(regime))>>)
FlowRegimeWithModel(re, regime, model) ==
  Obj(<<KV("reynoldsNumber", re), KV("regimeType", Str(regime)), KV("turbulenceModel", Str(model))>>)
FlowConfigurationValue(mechanism, drive) ==
  Obj(<<KV("drivingMechanism", Str(mechanism))>> \o drive \o
      <<KV("boundaryConditions",
           Obj(<<KV("inlet", Str("specified-velocity")), KV("outlet", Str("specified-pressure")),
                 KV("walls", Str("no-slip"))>>)),
        KV("transient", Bool(FALSE))>>)

\* one accepted raw parameter set per registered concept
BaseParameters(concept) ==
  CASE concept = "harmonic_oscillator" -> <<KV("amplitude", Num(1)), KV("frequency", Num(2))>>
    [] concept = "damped_oscillator" -> <<KV("amplitude", Num(1)), KV("frequency", Num(2))>>
    [] concept = "driven_oscillator" -> <<KV("amplitude", Num(1)), KV("naturalFrequency", Num(2))>>
    [] concept = "coupled_oscillators_2mass" ->
         <<KV("anchorStiffness", Num(2)), KV("couplingStiffness", Num(1)), KV("amplitude1", Num(1))>>
    [] concept = "projectile_motion" -> <<KV("initialSpeed", Num(2)), KV("launchAngleDeg", Num(45))>>
    [] concept = "uniform_circular_motion" -> <<KV("radius", Num(1)), KV("angularSpeed", Num(2))>>
    [] concept = "kepler_two_body_orbit" ->
         <<KV("semiMajorAxis", Num(2)), KV("eccentricity", Rat(1, 2)),
           KV("gravitationalParameter", Num(1))>>
    [] concept = "laminar_internal_flow" ->
         <<KV("length", Num(10)), KV("pipeDiameter", Num(1)), KV("density", Num(1000)),
           KV("dynamicViscosity", Rat(1, 1000)), KV("reynoldsNumber", Num(1500)),
           KV("drivingMechanism", Str("velocity-driven")), KV("meanVelocity", Num(2))>>
    [] concept = "fluid_system" ->
         <<KV("geometry",
              Obj(<<KV("type", Str("pipe")), KV("characteristicLength", Num(1)),
                    KV("dimensions", Obj(<<KV("length", Num(10)), KV("diameter", Num(1))>>)),
                    KV("orientation", Orient)>>)),
           KV("fluidProperties", Obj(<<KV("density", Num(1000)), KV("dynamicViscosity", Rat(1, 1000))>>)),
           KV("flowConfiguration", FlowConfigurationValue("velocity-driven", <<KV("inletVelocity", Num(2))>>)),
           KV("flowRegime", FlowRegimeValue(Num(1500), "laminar"))>>

BasePlan(concept) ==
  Obj(<<KV("concept", Str(concept)), KV("schemaVersion", Str("v1")),
        KV("parameters", Obj(BaseParameters(concept)))>>)

\* further accepted plans a draft may start from
PressureDrivenParameters ==
  <<KV("L", Num(10)), KV("D", Num(1)), KV("rho", Num(1000)),
    KV("mu", Rat(1, 1000)), KV("Re", Num(1500)),
    KV("drivingMechanism", Str("pressure-driven")), KV("dPdx", Num(-5))>>

AnnulusParameters(inner, outer) ==
  <<KV("geometryType", Str("annulus")), KV("length", Num(10)),
    KV("annulusInnerDiameter", inner), KV("annulusOuterDiameter", outer),
    KV("density", Num(1000)), KV("dynamicViscosity", Rat(1, 1000)),
    KV("reynoldsNumber", Num(1500)), KV("meanVelocity", Num(2))>>

PlanOf(concept, parameters) ==
  Obj(<<KV("concept", Str(concept)), KV("schemaVersion", Str("v1")),
        KV("parameters", Obj(parameters))>>)

\* {"concept":"projectile_motion","schemaVersion":"v1","parameters":{"v0":20,"thetaDeg":45}}
ExamplePlan ==
  PlanOf("projectile_motion", <<KV("v0", Num(20)), KV("thetaDeg", Num(45))>>)

StartingPlans ==
  {BasePlan(RegisteredConcepts[i]) : i \in 1..Len(RegisteredConcepts)}
  \cup {PlanOf("laminar_internal_flow", PressureDrivenParameters),
        PlanOf("laminar_internal_flow", AnnulusParameters(Num(1), Num(2))),
        ExamplePlan}

\* the keys an edit may write: some canonical keys and aliases of the concept,
\* a key no alias map has, and a name every object inherits
EditKeys(concept) ==
  {"bogus", "constructor"} \cup
  CASE concept = "harmonic_oscillator" -> {"amplitude", "A", "frequency", "phase"}
    [] concept = "damped_oscillator" -> {"amplitude", "A", "dampingRatio"}
    [] concept = "driven_oscillator" -> {"amplitude", "A", "driveFrequency"}
    [] concept = "coupled_oscillators_2mass" -> {"mass", "m", "couplingStiffness"}
    [] concept = "projectile_motion" -> {"launchAngleDeg", "thetaDeg", "gravity"}
    [] concept = "uniform_circular_motion" -> {"radius", "r", "plane"}
    [] concept = "kepler_two_body_orbit" -> {"eccentricity", "e", "semiMajorAxis"}
    [] concept = "laminar_internal_flow" ->
         {"reynoldsNumber", "Re", "meanVelocity", "pressureGradient", "drivingMechanism",
          "annulusOuterDiameter", "pipeDiameter"}
    [] concept = "fluid_system" -> {"flowRegime", "flowConfiguration"}
    [] OTHER -> {}

ScalarValues == {Num(3), Num(0), Num(-1), PInf, Str("text")}

EditValues(concept, key) ==
  CASE key = "reynoldsNumber" -> {Num(3000), Num(2300), Num(-1), PInf}
    [] key = "Re" -> {Num(3000)}
    [] key = "drivingMechanism" -> {Str("pressure-driven"), Str("gravity-driven")}
    [] key = "annulusOuterDiameter" -> {Num(1), Rat(1, 2), PInf}
    [] key = "pipeDiameter" -> {Num(3), Str("text")}
    [] key \in {"bogus", "constructor"} -> {Num(3)}
    [] key = "plane" -> {Str("xy"), Str("text")}
    [] key = "launchAngleDeg" -> {Num(90), Num(0), PInf, Str("text")}
    [] key = "eccentricity" -> {Num(1), Num(0), Num(-1), Str("text")}
    [] key = "flowRegime" ->
         {FlowRegimeWithModel(Num(1500), "laminar", "k-epsilon"),
          FlowRegimeWithModel(Num(5000), "turbulent", "k-epsilon"),
          FlowRegimeWithModel(Num(5000), "turbulent", "smagorinsky"),
          FlowRegimeValue(Num(-1), "laminar"), FlowRegimeValue(PInf, "laminar"), Null}
    [] key = "flowConfiguration" ->
         {FlowConfigurationValue("pressure-driven", <<KV("inletVelocity", Num(2))>>),
          FlowConfigurationValue("pressure-driven", <<KV("pressureGradient", Num(-5))>>),
          FlowConfigurationValue("velocity-driven", <<>>),
          FlowConfigurationValue("velocity-driven",
                                 <<KV("inletVelocity", Num(2)), KV("pressureGradient", Num(-5))>>),
          Str("text")}
    [] OTHER -> ScalarValues

TopLevelValues(field) ==
  CASE field = "concept" -> {Str("constructor"), Str("unknown_concept"), Num(7)}
    [] field = "schemaVersion" -> {Str("v2"), Str("constructor"), Str("")}
    [] field = "parameters" -> {Null, Str("ab"), Arr(<<Num(1)>>)}

\* what a caller can pass instead of a plan object
NonPlans == {Null, Str("plan"), Arr(<<>>)}

(***************************************************************************)
(* State                                                                   *)
(***************************************************************************)
VARIABLES
  scenePlan,        \* the raw plan being drafted, then the argument of the call
  edits,            \* edits applied to the draft so far
  pc,               \* position of the call inside validateScenePlan
  schema,           \* const schema
  canonicalParams,  \* let canonicalParams
  errors,           \* const errors
  evaluated,        \* contract functions called so far in this call
  trace,            \* the stages the call has completed, with their outcome
  result,           \* the value validateScenePlan returned
  escaped,          \* an exception left validateScenePlan
  jsResult,         \* the body POST /validate-plan answered for the same plan
  nz,               \* normalize applied to the draft's parameters on its own
  calls,            \* validateScenePlan calls running side by side
  wf,               \* one run of the generate or update workflow (planStep / planUpdateStep)
  panel             \* the parameter controls panel, the scene it drives and the App state behind it

vars == <<scenePlan, edits, pc, schema, canonicalParams, errors, evaluated, trace, result, escaped,
          jsResult, nz, calls, wf, panel>>

\* what the single validateScenePlan call never touches
harnessVars == <<nz, calls, wf, panel>>

\* normalize has not been applied on its own
NotApplied == [op |-> "none", key |-> "", alias |-> "", first |-> Null, second |-> Null,
               jsFirst |-> Null, jsSecond |-> Null]

\* no workflow run has started, no scene is shown
NotStarted ==
  [run |-> "none", pc |-> "idle", parentScenePlan |-> Null, allowConceptChange |-> FALSE,
   updateClassification |-> "none", targetParameters |-> <<>>, attempt |-> 0,
   plannerCalls |-> 0, validatorCalls |-> 0, lastCandidate |-> Null, lastErrors |-> <<>>,
   validated |-> {}, scenePlan |-> Null, handed |-> Null]
NoPanel ==
  [shown |-> FALSE, currentScenePlan |-> Null, artifactPlan |-> Null, values |-> <<>>,
   scene |-> <<>>, posted |-> <<>>, moves |-> 0, isLoading |-> FALSE]

callVars == <<schema, canonicalParams, errors, evaluated, trace, result, escaped, jsResult>>

Stage(name, ok) == [stage |-> name, ok |-> ok]

Init ==
  /\ scenePlan \in StartingPlans
  /\ edits = 0
  /\ pc = "draft"
  /\ schema = Null
  /\ canonicalParams = <<>>
  /\ errors = <<>>
  /\ evaluated = 0
  /\ trace = <<>>
  /\ result = Pending
  /\ escaped = FALSE
  /\ jsResult = Pending
  /\ nz = NotApplied
  /\ calls = <<>>
  /\ wf = NotStarted
  /\ panel = NoPanel

Drafting == pc = "draft" /\ edits < MaxEdits /\ scenePlan.t = "obj"
DraftConcept == Prop(scenePlan, "concept").s
DraftParameters == Prop(scenePlan, "parameters")

\* the caller writes parameters[key] = value
SetParameter ==
  /\ Drafting
  /\ DraftParameters.t = "obj"
  /\ Prop(scenePlan, "concept").t = "str"
  /\ \E key \in EditKeys(DraftConcept) : \E value \in EditValues(DraftConcept, key) :
       scenePlan' = Obj(Put(scenePlan.o, "parameters", Obj(Put(DraftParameters.o, key, value))))
  /\ edits' = edits + 1
  /\ UNCHANGED <<pc, callVars>>
  /\ UNCHANGED harnessVars

\* the caller leaves a parameter out
DeleteParameter ==
  /\ Drafting
  /\ DraftParameters.t = "obj"
  /\ \E key \in KeySet(DraftParameters.o) :
       scenePlan' = Obj(Put(scenePlan.o, "parameters", Obj(Remove(DraftParameters.o, key))))
  /\ edits' = edits + 1
  /\ UNCHANGED <<pc, callVars>>
  /\ UNCHANGED harnessVars

\* the caller writes or drops one of concept / schemaVersion / parameters
SetTopLevel ==
  /\ Drafting
  /\ \E field \in {"concept", "schemaVersion", "parameters"} :
       \/ \E value \in TopLevelValues(field) : scenePlan' = Obj(Put(scenePlan.o, field, value))
       \/ Has(scenePlan.o, field) /\ scenePlan' = Obj(Remove(scenePlan.o, field))
  /\ edits' = edits + 1
  /\ UNCHANGED <<pc, callVars>>
  /\ UNCHANGED harnessVars

\* the caller passes something that is not a plan object at all
ReplacePlan ==
  /\ Drafting
  /\ edits = 0
  /\ scenePlan' \in NonPlans
  /\ edits' = MaxEdits
  /\ UNCHANGED <<pc, callVars>>
  /\ UNCHANGED harnessVars

\* validateScenePlan(scenePlan) is entered
Submit ==
  /\ pc = "draft"
  /\ pc' = "toplevel"
  /\ UNCHANGED <<scenePlan, edits, callVars>>
  /\ UNCHANGED harnessVars

(***************************************************************************)
(* validateScenePlan, one action per stage                                 *)
(***************************************************************************)
Return(r) == pc' = "done" /\ result' = r

\* 1. Verify required top-level fields.
CheckTopLevel ==
  /\ pc = "toplevel"
  /\ IF NotAnObject(scenePlan)
     THEN /\ Return(Invalid(<<Err("scenePlan must be a non-null object", "", "", <<>>)>>))
          /\ trace' = Append(trace, Stage("toplevel", FALSE))
          /\ UNCHANGED errors
     ELSE /\ errors' = TopLevelErrors(scenePlan)
          /\ trace' = Append(trace, Stage("toplevel", errors' = <<>>))
          /\ IF errors' # <<>> THEN Return(Invalid(errors'))
             ELSE pc' = "lookup" /\ UNCHANGED result
  /\ UNCHANGED <<scenePlan, edits, schema, canonicalParams, evaluated, escaped, jsResult>>
  /\ UNCHANGED harnessVars

\* 2. Retrieve schema from registry.
LookupSchema ==
  /\ pc = "lookup"
  /\ schema' = getSchema(Prop(scenePlan, "concept").s, Prop(scenePlan, "schemaVersion").s)
  /\ trace' = Append(trace, Stage("lookup", Truthy(schema')))
  /\ IF ~Truthy(schema')
     THEN Return(Invalid(<<Err("No schema registered", Prop(scenePlan, "concept").s,
                               Prop(scenePlan, "schemaVersion").s, <<>>)>>))
     ELSE pc' = "normalize" /\ UNCHANGED result
  /\ UNCHANGED <<scenePlan, edits, canonicalParams, errors, evaluated, escaped, jsResult>>
  /\ UNCHANGED harnessVars

\* 3. Normalize parameters, inside try / catch.
Normalize ==
  /\ pc = "normalize"
  /\ LET r == CallNormalize(schema, Coalesce(Prop(scenePlan, "parameters"), Obj(<<>>)))
     IN /\ trace' = Append(trace, Stage("normalize", ~r.thrown))
        /\ IF r.thrown
           THEN Return(Invalid(<<Wrapped(r.error)>>)) /\ UNCHANGED canonicalParams
           ELSE canonicalParams' = r.value /\ pc' = "structure" /\ UNCHANGED result
  /\ UNCHANGED <<scenePlan, edits, schema, errors, evaluated, escaped, jsResult>>
  /\ UNCHANGED harnessVars

\* structuralErrors.length > 0
HasErrorsMutant(structuralErrors) == FALSE
HasErrors(structuralErrors) == structuralErrors # <<>>

\* 4. Structural validation.
ValidateStructure ==
  /\ pc = "structure"
  /\ LET structuralErrors == validateStructureOf(schema.id, canonicalParams)
     IN /\ trace' = Append(trace, Stage("structure", structuralErrors = <<>>))
        /\ IF HasErrors(structuralErrors) THEN Return(Invalid(structuralErrors))
           ELSE pc' = "contracts" /\ UNCHANGED result
  /\ UNCHANGED <<scenePlan, edits, schema, canonicalParams, errors, evaluated, escaped, jsResult>>
  /\ UNCHANGED harnessVars

\* if (violation) errors.push(violation)
PushMutant(errs, violation) == IF violation # NoErr /\ errs = <<>> THEN <<violation>> ELSE errs
Push(errs, violation) == IF violation # NoErr THEN Append(errs, violation) ELSE errs

\* 5. One turn of the for-loop over schema.contracts.
RunContract ==
  /\ pc = "contracts"
  /\ evaluated < Len(contractsOf(schema.id, canonicalParams))
  /\ LET violation == contractsOf(schema.id, canonicalParams)[evaluated + 1]
     IN IF violation.kind = "TypeError"
        THEN /\ escaped' = TRUE
             /\ pc' = "done"
             /\ UNCHANGED <<errors, evaluated>>
        ELSE /\ evaluated' = evaluated + 1
             /\ errors' = Push(errors, violation)
             /\ UNCHANGED <<pc, escaped>>
  /\ UNCHANGED <<scenePlan, edits, schema, canonicalParams, trace, result, jsResult>>
  /\ UNCHANGED harnessVars

\* the loop is over: errors.length > 0 decides
FinishMutant(errs, plan) == Valid(plan)
FinishWithWarningsMutant(errs, plan) == [valid |-> TRUE, errors |-> errs, canonicalScenePlan |-> plan]
Finish(errs, plan) == IF errs # <<>> THEN Invalid(errs) ELSE Valid(plan)

ReturnResult ==
  /\ pc = "contracts"
  /\ evaluated = Len(contractsOf(schema.id, canonicalParams))
  /\ trace' = Append(trace, Stage("contracts", errors = <<>>))
  /\ Return(Finish(errors,
                   Obj(<<KV("concept", Prop(scenePlan, "concept")),
                         KV("schemaVersion", Prop(scenePlan, "schemaVersion")),
                         KV("parameters", Obj(canonicalParams))>>)))
  /\ UNCHANGED <<scenePlan, edits, schema, canonicalParams, errors, evaluated, escaped, jsResult>>
  /\ UNCHANGED harnessVars

(***************************************************************************)
(* POST /validate-plan : the same plan sent to the JS mirror               *)
(***************************************************************************)
PostValidatePlan ==
  /\ pc = "done"
  /\ pc' = "posted"
  /\ jsResult' = validateScenePlanPayload(scenePlan)
  /\ UNCHANGED <<scenePlan, edits, schema, canonicalParams, errors, evaluated, trace, result, escaped>>
  /\ UNCHANGED harnessVars

Next ==
  \/ SetParameter
  \/ DeleteParameter
  \/ SetTopLevel
  \/ ReplacePlan
  \/ Submit
  \/ CheckTopLevel
  \/ LookupSchema
  \/ Normalize
  \/ ValidateStructure
  \/ RunContract
  \/ ReturnResult
  \/ PostValidatePlan

Spec == Init /\ [][Next]_vars

(***************************************************************************)
(* Vocabulary of the properties                                            *)
(***************************************************************************)
\* validateScenePlan has returned a value
Returned == pc \in {"done", "posted"} /\ ~escaped
\* POST /validate-plan has answered
Posted == pc = "posted"

StageOrder == <<"toplevel", "lookup", "normalize", "structure", "contracts">>
\* the call completed stage number i, and with which outcome
Reached(i) == Len(trace) >= i
Passed(i) == Reached(i) /\ trace[i].ok
Failed(i) == Reached(i) /\ ~trace[i].ok

CallConcept == Prop(scenePlan, "concept")
CallVersion == Prop(scenePlan, "schemaVersion")
\* the argument normalize is called with
RawParameters == Coalesce(Prop(scenePlan, "parameters"), Obj(<<>>))
IsRegisteredConcept(c) == \E i \in 1..Len(RegisteredConcepts) : RegisteredConcepts[i] = c
RegisteredPair == /\ CallConcept.t = "str" /\ IsRegisteredConcept(CallConcept.s)
                  /\ CallVersion = Str("v1")
\* the parameters of the canonical plan a valid result carries
ResultParameters(r) == Get(r.canonicalScenePlan.o, "parameters").o

(***************************************************************************)
(* C1                                                                      *)
(***************************************************************************)
\* position of the call, for "no earlier stage is ever revisited"
Rank(p) ==
  CASE p = "draft" -> 0
    [] p = "toplevel" -> 1
    [] p = "lookup" -> 2
    [] p = "normalize" -> 3
    [] p = "structure" -> 4
    [] p = "contracts" -> 5
    [] p = "done" -> 6
    [] p = "posted" -> 7

\* the completed stages are a prefix of the pipeline order, each once, and
\* only the last one may have failed
LinearTrace ==
  /\ Len(trace) <= Len(StageOrder)
  /\ \A i \in 1..Len(trace) : trace[i].stage = StageOrder[i]
  /\ \A i \in 1..(Len(trace) - 1) : trace[i].ok

\* a failed stage ends the call in the Error outcome
FailureEndsCall ==
  (trace # <<>> /\ ~trace[Len(trace)].ok) => (Returned /\ ~result.valid)

\* valid:true exactly when all five stages passed
ValidIffAllPassed ==
  Returned => (result.valid <=> (Len(trace) = Len(StageOrder) /\ \A i \in 1..Len(trace) : trace[i].ok))

\* C1: validateScenePlan returns valid:true if and only if the call passed the
\* top-level check, the registry lookup, normalize, validateStructure and
\* every contract, in this order and each exactly once; a failure at any
\* stage ends the call in the Error outcome; no earlier stage is revisited.
C1_LinearPipeline ==
  /\ [](LinearTrace /\ FailureEndsCall /\ ValidIffAllPassed)
  /\ [][Rank(pc') >= Rank(pc) /\ Len(trace') >= Len(trace)]_vars

\* a drafted plan went through all five stages and was accepted
C1_Witness ==
  /\ Returned /\ result.valid /\ edits > 0
  /\ Len(trace) = Len(StageOrder)
  /\ evaluated > 0

(***************************************************************************)
(* C2                                                                      *)
(***************************************************************************)
ValidShape(r) ==
  /\ r.valid
  /\ r.errors = <<>>
  /\ r.canonicalScenePlan.t = "obj"
  /\ {"concept", "schemaVersion", "parameters"} \subseteq KeySet(r.canonicalScenePlan.o)
InvalidShape(r) ==
  /\ ~r.valid
  /\ r.errors # <<>>
  /\ r.canonicalScenePlan = Undef

UnregisteredMessage == Err("No schema registered", CallConcept.s, CallVersion.s, <<>>)

\* C3: for every (concept, schemaVersion) pair that is not a registered
\* pair, getSchema returns not-found and validateScenePlan returns
\* valid:false with the unregistered-pair message.
C3_UnregisteredPairNotFound ==
  (Returned /\ Passed(1) /\ ~RegisteredPair) =>
    /\ schema = Null
    /\ result = Invalid(<<UnregisteredMessage>>)

\* the failing pair: a registered concept with the version "constructor"
\* resolves to a value that is no schema, and the call fails in normalize
C3_Divergence ==
  /\ Returned /\ ~RegisteredPair
  /\ CallVersion = Str("constructor")
  /\ schema = ObjectPrototype("constructor")
  /\ result = Invalid(<<Wrapped(TypeError("schema.normalize is not a function"))>>)

(***************************************************************************)
(* C4                                                                      *)
(***************************************************************************)
PARAM_MAP(id) ==
  CASE id = "harmonic_oscillator" -> PARAM_MAP_harmonic_oscillator
    [] id = "damped_oscillator" -> PARAM_MAP_damped_oscillator
    [] id = "driven_oscillator" -> PARAM_MAP_driven_oscillator
    [] id = "coupled_oscillators_2mass" -> PARAM_MAP_coupled_oscillators_2mass
    [] id = "projectile_motion" -> PARAM_MAP_projectile_motion
    [] id = "uniform_circular_motion" -> PARAM_MAP_uniform_circular_motion
    [] id = "kepler_two_body_orbit" -> PARAM_MAP_kepler_two_body_orbit
    [] id = "laminar_internal_flow" -> PARAM_MAP_laminar_internal_flow
    [] id = "fluid_system" -> PARAM_MAP_fluid_system

\* the canonical key set of a concept: the targets of its alias map
CanonicalKeySet(id) == {PARAM_MAP(id)[i][2] : i \in 1..Len(PARAM_MAP(id))}

\* the keys normalize guarantees: the required ones and the defaulted ones
GuaranteedKeys(id) ==
  CASE id = "harmonic_oscillator" -> {"amplitude", "frequency", "phase"}
    [] id = "damped_oscillator" -> {"amplitude", "frequency", "dampingRatio", "phase"}
    [] id = "driven_oscillator" ->
         {"amplitude", "naturalFrequency", "driveAmplitude", "driveFrequency", "dampingRatio",
          "phase", "drivePhase"}
    [] id = "coupled_oscillators_2mass" ->
         {"mass", "anchorStiffness", "couplingStiffness", "amplitude1", "amplitude2", "phaseOffset"}
    [] id = "projectile_motion" ->
         {"initialSpeed", "launchAngleDeg", "gravity", "initialHeight", "mass", "dragCoefficient"}
    [] id = "uniform_circular_motion" -> {"radius", "angularSpeed", "phase", "mass", "plane"}
    [] id = "kepler_two_body_orbit" ->
         {"semiMajorAxis", "eccentricity", "gravitationalParameter", "phase", "inclinationDeg"}
    [] id = "laminar_internal_flow" ->
         {"geometryType", "length", "hydraulicDiameter", "density", "dynamicViscosity",
          "reynoldsNumber", "drivingMechanism", "transient"}
    [] id = "fluid_system" -> {"geometry", "fluidProperties", "flowConfiguration", "flowRegime"}

\* every value of number type in an object, one level of nesting included
NumbersFinite(o) ==
  \A i \in 1..Len(o) :
    /\ IsNumberType(o[i][2]) => IsFinite(o[i][2])
    /\ o[i][2].t = "obj" =>
         \A j \in 1..Len(o[i][2].o) : IsNumberType(o[i][2].o[j][2]) => IsFinite(o[i][2].o[j][2])

\* C4: the parameters of every canonicalScenePlan returned with valid:true
\* contain no key outside the concept's canonical key set, contain every
\* required canonical key, and have only finite values in numeric fields.
C4_CanonicalInvariant ==
  (Returned /\ result.valid) =>
    /\ KeySet(ResultParameters(result)) \subseteq CanonicalKeySet(schema.id)
    /\ GuaranteedKeys(schema.id) \subseteq KeySet(ResultParameters(result))
    /\ NumbersFinite(ResultParameters(result))

\* the failing plan: harmonic_oscillator with amplitude Infinity is accepted
C4_Divergence ==
  /\ Returned /\ result.valid
  /\ schema.id = "harmonic_oscillator"
  /\ Get(ResultParameters(result), "amplitude") = PInf

(***************************************************************************)
(* C5                                                                      *)
(***************************************************************************)
\* the messages of the contracts that fail on the canonical parameters, in
\* list order
Violations == SelectSeq(contractsOf(schema.id, canonicalParams), LAMBDA v : v # NoErr)

\* C5: when structural validation passes, every contract of the concept is
\* evaluated even after an earlier one failed, the returned errors are the
\* messages of all failed contracts in list order, and the request is
\* rejected if at least one contract returned a message.
C5_AllContractsRun ==
  (Returned /\ Passed(4)) =>
    /\ evaluated = Len(contractsOf(schema.id, canonicalParams))
    /\ result.errors = Violations
    /\ Violations # <<>> => ~result.valid

\* two contracts failed, the first failure was not the last contract, and
\* both messages came back
C5_Witness ==
  /\ Returned /\ Passed(4)
  /\ Len(Violations) >= 2
  /\ result = Invalid(Violations)
  /\ evaluated = Len(contractsOf(schema.id, canonicalParams))

(***************************************************************************)
(* C6                                                                      *)
(***************************************************************************)
\* C6: when validateStructure returns at least one error, validateScenePlan
\* returns exactly that list and no contract is evaluated in that call, so a
\* result never mixes structural errors with contract messages.
C6_StructuralErrorsVerbatim ==
  /\ pc = "contracts" => validateStructureOf(schema.id, canonicalParams) = <<>>
  /\ (Returned /\ Reached(4) /\ validateStructureOf(schema.id, canonicalParams) # <<>>) =>
       /\ result = Invalid(validateStructureOf(schema.id, canonicalParams))
       /\ evaluated = 0
       /\ \A i \in 1..Len(result.errors) : result.errors[i].kind = "structure"

\* a structurally unsound plan was rejected with its structural errors
C6_Witness ==
  /\ Returned /\ Failed(4)
  /\ result.errors = validateStructureOf(schema.id, canonicalParams)
  /\ result.errors # <<>>
  /\ evaluated = 0

(***************************************************************************)
(* C7                                                                      *)
(***************************************************************************)
\* the raw keys of the call, in input order, and what the alias map of the
\* called schema holds for them
RawEntries == OwnEntries(RawParameters)
AliasKeys == KeySet(PARAM_MAP(schema.id))
UnknownKeys == {RawEntries[i][1] : i \in 1..Len(RawEntries)} \ AliasKeys
UnknownParameterError(key) ==
  [wrap |-> "Normalization failed", kind |-> "Unknown parameter", key |-> key, via |-> "",
   keys |-> Keys(PARAM_MAP(schema.id))]

Canon(i) == Lookup(PARAM_MAP(schema.id), RawEntries[i][1])
IsUnknownAt(i) ==
  ~Has(PARAM_MAP(schema.id), RawEntries[i][1]) /\ ObjectPrototype(RawEntries[i][1]) = Undef
IsDuplicateAt(i) == ~IsUnknownAt(i) /\ \E j \in 1..(i - 1) : ~IsUnknownAt(j) /\ Canon(j) = Canon(i)
HasDuplicate == \E i \in 1..Len(RawEntries) : IsDuplicateAt(i)

\* C7: a raw parameter set containing a key that is not in the concept's
\* alias map is rejected: normalize fails and the result is valid:false (in
\* the engine and in the JS mirror); the error is the unknown-parameter
\* error naming such a key and listing every allowed key (read with the
\* input-order rule of C8: unless a duplicate mapping is met first).
C7_UnknownKeyRejected ==
  /\ (Returned /\ Passed(2) /\ schema.t = "schema" /\ UnknownKeys # {}) =>
       /\ ~result.valid /\ Failed(3)
       /\ ~HasDuplicate => \E key \in UnknownKeys : result = Invalid(<<UnknownParameterError(key)>>)
  /\ (Posted /\ RegisteredPair /\ UnknownKeys # {}) =>
       /\ ~jsResult.valid
       /\ ~HasDuplicate => \E key \in UnknownKeys : jsResult = Invalid(<<UnknownParameterError(key)>>)

\* the failing plan: the key "constructor" is in no alias map, and the plan
\* that carries it is accepted by the engine and by the mirror
C7_Divergence ==
  /\ Posted /\ ~escaped /\ RegisteredPair
  /\ "constructor" \in UnknownKeys
  /\ result.valid /\ jsResult.valid
  /\ Has(ResultParameters(result), ObjectPrototype("constructor").s)

(***************************************************************************)
(* C8                                                                      *)
(***************************************************************************)
FirstDuplicate == CHOOSE i \in 1..Len(RawEntries) :
                    IsDuplicateAt(i) /\ \A j \in 1..(i - 1) : ~IsDuplicateAt(j)
FirstOffence == CHOOSE i \in 1..Len(RawEntries) :
                  /\ IsDuplicateAt(i) \/ IsUnknownAt(i)
                  /\ \A j \in 1..(i - 1) : ~(IsDuplicateAt(j) \/ IsUnknownAt(j))
DuplicateMappingError(i) ==
  [wrap |-> "Normalization failed", kind |-> "Duplicate mapping", key |-> Canon(i).s,
   via |-> RawEntries[i][1], keys |-> <<>>]
OffenceError(i) ==
  IF IsDuplicateAt(i) THEN DuplicateMappingError(i) ELSE UnknownParameterError(RawEntries[i][1])

NormalizerFailures ==
  {"Unknown parameter", "Duplicate mapping", "Missing required parameter",
   "Pipe geometry requires one of", "Annulus geometry requires", "Channel geometry requires",
   "Rectangular duct geometry requires"}

LaminarPlanWith(re) ==
  Obj(<<KV("concept", Str("laminar_internal_flow")), KV("schemaVersion", Str("v1")),
        KV("parameters", Obj(Put(BaseParameters("laminar_internal_flow"), "reynoldsNumber", re)))>>)
ReynoldsMessage == Err("contract", "laminar_internal_flow requires Reynolds number < 2300", "", <<>>)

\* C10: every laminar_internal_flow plan returned valid has
\* 0 <= reynoldsNumber < 2300; the plan with reynoldsNumber >= 2300 (2300,
\* 3000) and all else valid is rejected with the '< 2300' contract message;
\* the plan with reynoldsNumber 1500, velocity-driven, meanVelocity 2 is
\* accepted (by the engine and by the JS mirror).
C10_ReynoldsGate ==
  /\ (Returned /\ result.valid /\ schema = Schema("laminar_internal_flow")) =>
       /\ IsFinite(Get(ResultParameters(result), "reynoldsNumber"))
       /\ Ge(Get(ResultParameters(result), "reynoldsNumber"), Num(0))
       /\ Lt(Get(ResultParameters(result), "reynoldsNumber"), Num(2300))
  /\ (Posted /\ jsResult.valid /\ CallConcept = Str("laminar_internal_flow")) =>
       /\ IsFinite(Get(ResultParameters(jsResult), "reynoldsNumber"))
       /\ Ge(Get(ResultParameters(jsResult), "reynoldsNumber"), Num(0))
       /\ Lt(Get(ResultParameters(jsResult), "reynoldsNumber"), Num(2300))
  /\ \A re \in {Num(2300), Num(3000)} :
       /\ (Returned /\ scenePlan = LaminarPlanWith(re)) => result = Invalid(<<ReynoldsMessage>>)
       /\ (Posted /\ scenePlan = LaminarPlanWith(re)) => jsResult = Invalid(<<ReynoldsMessage>>)
  /\ (Returned /\ scenePlan = LaminarPlanWith(Num(1500))) =>
       /\ result.valid
       /\ Get(ResultParameters(result), "meanVelocity") = Num(2)
       /\ Get(ResultParameters(result), "drivingMechanism") = Str("velocity-driven")
  /\ (Posted /\ scenePlan = LaminarPlanWith(Num(1500))) => jsResult.valid

\* the plan with reynoldsNumber 3000 went through both implementations and
\* was rejected by the gate
C10_Witness ==
  /\ Posted /\ ~escaped
  /\ scenePlan = LaminarPlanWith(Num(3000))
  /\ result = Invalid(<<ReynoldsMessage>>)
  /\ jsResult = Invalid(<<ReynoldsMessage>>)

(***************************************************************************)
(* C11                                                                     *)
(***************************************************************************)
\* the raw parameters carry a key that the laminar alias map sends to k
SuppliesLaminar(k) ==
  \E i \in 1..Len(RawEntries) :
    Lookup(PARAM_MAP_laminar_internal_flow, RawEntries[i][1]) = Str(k)

\* exactly one of the two drive inputs, and the one the mechanism names
DriveMatches(mechanism, hasVelocity, hasPressureGradient) ==
  /\ hasVelocity # hasPressureGradient
  /\ mechanism \in {Str("velocity-driven"), Str("pressure-driven")}
  /\ (mechanism = Str("velocity-driven")) => hasVelocity
  /\ (mechanism = Str("pressure-driven")) => hasPressureGradient

LaminarDrive(p) ==
  DriveMatches(Get(p, "drivingMechanism"),
               SuppliesLaminar("meanVelocity"), SuppliesLaminar("pressureGradient"))

FluidSystemDrive(p) ==
  LET fc == Get(p, "flowConfiguration")
      raw == Prop(RawParameters, "flowConfiguration")
  IN /\ fc = raw
     /\ DriveMatches(Prop(fc, "drivingMechanism"),
                     Prop(raw, "inletVelocity") # Undef, Prop(raw, "pressureGradient") # Undef)

\* C11: a flow-concept plan (laminar_internal_flow, fluid_system) is accepted
\* only if it supplies exactly one of the velocity input (meanVelocity /
\* inletVelocity) and pressureGradient, and the one supplied is the one its
\* drivingMechanism names; both, neither, or only the other one is rejected
\* (by the engine and by the JS mirror).
C11_ExactlyOneDrive ==
  /\ (Returned /\ result.valid /\ schema = Schema("laminar_internal_flow")) =>
       LaminarDrive(ResultParameters(result))
  /\ (Posted /\ jsResult.valid /\ CallConcept = Str("laminar_internal_flow")) =>
       LaminarDrive(ResultParameters(jsResult))
  /\ (Returned /\ result.valid /\ schema = Schema("fluid_system")) =>
       FluidSystemDrive(ResultParameters(result))
  /\ (Posted /\ jsResult.valid /\ CallConcept = Str("fluid_system")) =>
       FluidSystemDrive(ResultParameters(jsResult))

\* a fluid_system plan supplying both inletVelocity and pressureGradient went
\* through both implementations and was rejected
C11_Witness ==
  /\ Posted /\ ~escaped
  /\ schema = Schema("fluid_system")
  /\ Prop(Prop(RawParameters, "flowConfiguration"), "inletVelocity") # Undef
  /\ Prop(Prop(RawParameters, "flowConfiguration"), "pressureGradient") # Undef
  /\ result = Invalid(<<Msg("Provide exactly one of inletVelocity or pressureGradient")>>)
  /\ ~jsResult.valid

(***************************************************************************)
(* C12                                                                     *)
(***************************************************************************)
AnnulusPlan(inner, outer) == PlanOf("laminar_internal_flow", AnnulusParameters(inner, outer))

\* the canonical parameters p describe an annulus whose outer diameter
\* exceeds its inner diameter
OuterExceedsInner(p) ==
  /\ IsFinite(Get(p, "annulusInnerDiameter"))
  /\ IsFinite(Get(p, "annulusOuterDiameter"))
  /\ Gt(Get(p, "annulusOuterDiameter"), Get(p, "annulusInnerDiameter"))

IsAnnulus(p) == Get(p, "geometryType") = Str("annulus")

\* C12: every laminar_internal_flow plan with geometryType annulus that is
\* returned valid has annulusOuterDiameter > annulusInnerDiameter; the
\* annulus plan with outer <= inner (outer = inner, outer < inner) is
\* rejected, and the one with outer > inner is accepted with
\* hydraulicDiameter = outer - inner (by the engine and by the JS mirror).
C12_AnnulusOuterExceedsInner ==
  /\ (Returned /\ result.valid /\ schema = Schema("laminar_internal_flow")
        /\ IsAnnulus(ResultParameters(result))) =>
       OuterExceedsInner(ResultParameters(result))
  /\ (Posted /\ jsResult.valid /\ CallConcept = Str("laminar_internal_flow")
        /\ IsAnnulus(ResultParameters(jsResult))) =>
       OuterExceedsInner(ResultParameters(jsResult))
  /\ \A outer \in {Num(1), Rat(1, 2)} :
       /\ (Returned /\ scenePlan = AnnulusPlan(Num(1), outer)) => ~result.valid
       /\ (Posted /\ scenePlan = AnnulusPlan(Num(1), outer)) => ~jsResult.valid
  /\ (Returned /\ scenePlan = AnnulusPlan(Num(1), Num(2))) =>
       /\ result.valid
       /\ Get(ResultParameters(result), "hydraulicDiameter") = Num(1)
  /\ (Posted /\ scenePlan = AnnulusPlan(Num(1), Num(2))) => jsResult.valid

\* the annulus plan with outer = inner went through both implementations and
\* was rejected
C12_Witness ==
  /\ Posted /\ ~escaped
  /\ scenePlan = AnnulusPlan(Num(1), Num(1))
  /\ ~result.valid /\ Failed(4)
  /\ ~jsResult.valid

(***************************************************************************)
(* C13                                                                     *)
(***************************************************************************)
\* the concepts whose schema module derives an Assembly
AssemblyConcepts ==
  {"damped_oscillator", "driven_oscillator", "coupled_oscillators_2mass", "projectile_motion",
   "uniform_circular_motion", "kepler_two_body_orbit", "laminar_internal_flow"}

buildAssemblyOf(id, p) ==
  CASE id = "damped_oscillator" -> buildDampedAssembly(p)
    [] id = "driven_oscillator" -> buildDrivenAssembly(p)
    [] id = "coupled_oscillators_2mass" -> buildCoupledAssembly(p)
    [] id = "projectile_motion" -> buildProjectileAssembly(p)
    [] id = "uniform_circular_motion" -> buildUniformCircularAssembly(p)
    [] id = "kepler_two_body_orbit" -> buildKeplerAssembly(p)
    [] id = "laminar_internal_flow" -> buildLaminarAssembly(p)

\* <<pillar, field, value>> : the variant tags the concept's contracts name
RequiredTags(id) ==
  CASE id = "damped_oscillator" ->
         {<<"evolution", "kind", Str("damped_shm")>>, <<"state", "kind", Str("point_mass")>>,
          <<"state", "dof", Str("1d")>>, <<"domain", "kind", Str("interval_1d")>>,
          <<"material", "kind", Str("ideal_spring")>>, <<"forcing", "kind", Str("none")>>}
    [] id = "driven_oscillator" ->
         {<<"evolution", "kind", Str("damped_shm")>>, <<"state", "kind", Str("point_mass")>>,
          <<"state", "dof", Str("1d")>>, <<"domain", "kind", Str("interval_1d")>>,
          <<"material", "kind", Str("ideal_spring")>>, <<"forcing", "kind", Str("harmonic_drive")>>}
    [] id = "coupled_oscillators_2mass" ->
         {<<"state", "kind", Str("particle_ensemble")>>, <<"state", "count", Num(2)>>,
          <<"domain", "kind", Str("interval_1d")>>, <<"material", "kind", Str("ideal_spring")>>,
          <<"forcing", "kind", Str("none")>>, <<"evolution", "kind", Str("wave_equation")>>}
    [] id = "projectile_motion" ->
         {<<"state", "kind", Str("point_mass")>>, <<"state", "dof", Str("2d")>>,
          <<"domain", "kind", Str("rect_2d")>>, <<"material", "kind", Str("inertial_particle")>>,
          <<"forcing", "kind", Str("constant_field")>>, <<"forcing", "quantity", Str("gravity")>>,
          <<"evolution", "kind", Str("kinematic")>>}
    [] id = "uniform_circular_motion" ->
         {<<"state", "kind", Str("point_mass")>>, <<"state", "dof", Str("3d")>>,
          <<"domain", "kind", Str("box_3d")>>, <<"material", "kind", Str("inertial_particle")>>,
          <<"forcing", "kind", Str("none")>>, <<"evolution", "kind", Str("uniform_circular")>>}
    [] id = "kepler_two_body_orbit" ->
         {<<"state", "kind", Str("particle_ensemble")>>, <<"state", "count", Num(2)>>,
          <<"domain", "kind", Str("box_3d")>>, <<"material", "kind", Str("inertial_particle")>>,
          <<"forcing", "kind", Str("central_inverse_square")>>,
          <<"evolution", "kind", Str("orbital_two_body")>>}
    [] id = "laminar_internal_flow" ->
         {<<"state", "kind", Str("field_vector")>>, <<"state", "dimension", Str("3d")>>,
          <<"material", "kind", Str("newtonian_fluid")>>,
          <<"evolution", "kind", Str("navier_stokes")>>,
          <<"evolution", "incompressible", Bool(TRUE)>>, <<"evolution", "newtonian", Bool(TRUE)>>}

\* the forcing variant a laminar plan's driving mechanism asks for
LaminarForcingKind(p) ==
  IF Get(p, "drivingMechanism") = Str("pressure-driven") THEN Str("pressure_gradient")
  ELSE Str("none")

CarriesRequiredTags(id, p) ==
  /\ \A t \in RequiredTags(id) : Tag(buildAssemblyOf(id, p), t[1], t[2]) = t[3]
  /\ (id = "laminar_internal_flow") =>
       Tag(buildLaminarAssembly(p), "forcing", "kind") = LaminarForcingKind(p)

\* C13: for every concept that derives an Assembly, the Assembly derived from
\* the canonical parameters of an accepted plan carries exactly the pillar
\* variant tags the concept's contracts name (a plan whose Assembly carries
\* another tag is never accepted), and the starting plan of each of these
\* concepts is accepted.
C13_AssemblyTags ==
  /\ (Returned /\ result.valid /\ schema.t = "schema" /\ schema.id \in AssemblyConcepts) =>
       CarriesRequiredTags(schema.id, ResultParameters(result))
  /\ \A id \in AssemblyConcepts : (Returned /\ scenePlan = BasePlan(id)) => result.valid

\* an edited projectile plan was accepted; its Assembly's Forcing is the
\* constant gravity field
C13_Witness ==
  /\ Returned /\ result.valid /\ edits > 0
  /\ schema = Schema("projectile_motion")
  /\ Tag(buildProjectileAssembly(ResultParameters(result)), "forcing", "kind") = Str("constant_field")
  /\ Tag(buildProjectileAssembly(ResultParameters(result)), "forcing", "quantity") = Str("gravity")

(***************************************************************************)
(* C19                                                                     *)
(***************************************************************************)
\* the canonical plan of result r carries the static control-spec list of
\* the validated concept
CarriesControlSpecs(r) ==
  /\ Has(r.canonicalScenePlan.o, "concept")
  /\ Has(r.canonicalScenePlan.o, "schemaVersion")
  /\ Has(r.canonicalScenePlan.o, "parameters")
  /\ Has(r.canonicalScenePlan.o, "parameterControlSpecs")
  /\ Get(r.canonicalScenePlan.o, "parameterControlSpecs")
       = PARAMETER_CONTROL_SPECS(CallConcept.s, CallVersion.s)

\* C19: every canonicalScenePlan returned with valid:true contains, besides
\* concept, schemaVersion and parameters, the static parameterControlSpecs
\* list of the concept that was validated (from the engine and from the JS
\* mirror).
C19_ControlSpecsIncluded ==
  /\ (Returned /\ result.valid) => CarriesControlSpecs(result)
  /\ (Posted /\ jsResult.valid) => CarriesControlSpecs(jsResult)

\* the same accepted plan: the JS mirror returns the list, the engine's
\* canonical plan has no such field
C19_Divergence ==
  /\ Posted /\ ~escaped
  /\ scenePlan = BasePlan("projectile_motion")
  /\ result.valid /\ jsResult.valid
  /\ CarriesControlSpecs(jsResult)
  /\ KeySet(result.canonicalScenePlan.o) = {"concept", "schemaVersion", "parameters"}

(***************************************************************************)
(* normalize applied on its own to the parameters of a draft               *)
(***************************************************************************)
Applying == pc = "draft" /\ nz.op = "none"

\* the raw parameters with key k written as a, at the same position
Rename(o, k, a) == [i \in 1..Len(o) |-> IF o[i][1] = k THEN <<a, o[i][2]>> ELSE o[i]]

\* normalize(rawParams)
ApplyNormalize ==
  /\ Applying
  /\ nz' = [NotApplied EXCEPT !.op = "normalize",
                              !.first = normalizeOf(DraftConcept, DraftParameters)]
  /\ pc' = "applied"
  /\ UNCHANGED <<scenePlan, edits, callVars, calls, wf, panel>>

\* normalize(rawParams) next to normalize of the same set with the canonical
\* key k written as its alias a (a and k are an entry a: k of PARAM_MAP)
ApplyAlias ==
  /\ Applying
  /\ \E i \in 1..Len(PARAM_MAP(DraftConcept)) :
       \E a \in {PARAM_MAP(DraftConcept)[i][1]} : \E k \in {PARAM_MAP(DraftConcept)[i][2]} :
         /\ a # k
         /\ Has(DraftParameters.o, k) /\ ~Has(DraftParameters.o, a)
         /\ nz' = [NotApplied EXCEPT
                     !.op = "alias", !.key = k, !.alias = a,
                     !.first = normalizeOf(DraftConcept, DraftParameters),
                     !.second = normalizeOf(DraftConcept, Obj(Rename(DraftParameters.o, k, a)))]
  /\ pc' = "applied"
  /\ UNCHANGED <<scenePlan, edits, callVars, calls, wf, panel>>

\* normalize(normalize(rawParams))
NormalizeAgain ==
  /\ Applying
  /\ LET n == normalizeOf(DraftConcept, DraftParameters)
     IN /\ ~n.thrown
        /\ nz' = [NotApplied EXCEPT !.op = "again", !.first = n,
                                    !.second = normalizeOf(DraftConcept, Obj(n.value))]
  /\ pc' = "applied"
  /\ UNCHANGED <<scenePlan, edits, callVars, calls, wf, panel>>

PipeRadii == {Rat(1, 20), Num(1), Num(3)}

\* the raw parameters without any name of pipeRadius, pipeDiameter or
\* hydraulicDiameter
WithoutPipeSize(o) ==
  SelectSeq(o, LAMBDA kv :
    Lookup(PARAM_MAP_laminar_internal_flow, kv[1])
      \notin {Str("pipeRadius"), Str("pipeDiameter"), Str("hydraulicDiameter")})

\* a pipe given by pipeRadius r alone next to the same pipe given by
\* pipeDiameter 2r alone, through normalize and through validateLaminar
PipeByRadiusOrDiameter ==
  /\ Applying
  /\ DraftConcept = "laminar_internal_flow"
  /\ Get(DraftParameters.o, "geometryType") \in {Undef, Str("pipe")}
  /\ \E r \in PipeRadii :
       LET byRadius == Obj(Put(WithoutPipeSize(DraftParameters.o), "pipeRadius", r))
           byDiameter == Obj(Put(WithoutPipeSize(DraftParameters.o), "pipeDiameter", Mul(Num(2), r)))
       IN nz' = [NotApplied EXCEPT
                   !.op = "pipe", !.key = "pipeRadius", !.alias = "pipeDiameter",
                   !.first = normalize_laminar_internal_flow(byRadius),
                   !.second = normalize_laminar_internal_flow(byDiameter),
                   !.jsFirst = validateLaminar(byRadius),
                   !.jsSecond = validateLaminar(byDiameter)]
  /\ pc' = "applied"
  /\ UNCHANGED <<scenePlan, edits, callVars, calls, wf, panel>>

NextNormalize ==
  \/ SetParameter
  \/ DeleteParameter
  \/ ApplyNormalize
  \/ ApplyAlias
  \/ NormalizeAgain
  \/ PipeByRadiusOrDiameter

SpecNormalize == Init /\ [][NextNormalize]_vars

(***************************************************************************)
(* C15  alias equivalence                                                  *)
(***************************************************************************)
AliasApplied == pc = "applied" /\ nz.op = "alias"

\* the two errors are the same message, except that a duplicate-mapping
\* message names the raw key that was actually used
SameFailure(e1, e2, k, a) ==
  /\ e1.kind = e2.kind /\ e1.key = e2.key /\ e1.keys = e2.keys /\ e1.wrap = e2.wrap
  /\ \/ e1.via = e2.via
     \/ e1.kind = "Duplicate mapping" /\ e1.via = k /\ e2.via = a

\* C15 as stated: for every concept, canonical key k, alias a of k and value
\* v, normalize of a raw set using k and normalize of the same set with a in
\* place of k give identical canonical parameters, or fail identically.
C15_AliasIdentical == AliasApplied => nz.first = nz.second

\* C15 amended: the two give identical canonical parameters when either
\* succeeds; when they fail they fail with the same message, except that a
\* duplicate-mapping message names the raw key used (k in one, a in the other).
C15_AliasEquivalence ==
  AliasApplied =>
    /\ nz.first.thrown = nz.second.thrown
    /\ ~nz.first.thrown => nz.first.value = nz.second.value
    /\ nz.first.thrown => SameFailure(nz.first.error, nz.second.error, nz.key, nz.alias)

\* an alias of a supplied canonical key is substituted: once where both
\* normalize, and once where both report the duplicate through different keys
C15_Witness ==
  /\ AliasApplied
  /\ nz.first.thrown /\ nz.first.error.kind = "Duplicate mapping"
  /\ nz.first.error.via = nz.key /\ nz.second.error.via = nz.alias

C15_WitnessAccepted ==
  AliasApplied /\ ~nz.first.thrown /\ ~nz.second.thrown /\ nz.key = "pipeDiameter"

(***************************************************************************)
(* C16  defaults                                                           *)
(***************************************************************************)
\* the optional canonical keys of a concept with the value each takes when
\* unset; p is the canonical set, for the keys that default to another key
DefaultsOf(id, p) ==
  CASE id = "harmonic_oscillator" -> <<KV("phase", Num(0))>>
    [] id = "damped_oscillator" -> <<KV("dampingRatio", Rat(5, 100)), KV("phase", Num(0))>>
    [] id = "driven_oscillator" ->
         <<KV("driveAmplitude", Get(p, "amplitude")),
           KV("driveFrequency", Get(p, "naturalFrequency")),
           KV("dampingRatio", Rat(5, 100)), KV("phase", Num(0)), KV("drivePhase", Num(0))>>
    [] id = "coupled_oscillators_2mass" ->
         <<KV("mass", Num(1)), KV("amplitude2", Get(p, "amplitude1")), KV("phaseOffset", Num(0))>>
    [] id = "projectile_motion" ->
         <<KV("gravity", Rat(981, 100)), KV("initialHeight", Num(0)), KV("mass", Num(1)),
           KV("dragCoefficient", Num(0))>>
    [] id = "uniform_circular_motion" ->
         <<KV("phase", Num(0)), KV("mass", Num(1)), KV("plane", Str("xy"))>>
    [] id = "kepler_two_body_orbit" -> <<KV("phase", Num(0)), KV("inclinationDeg", Num(0))>>
    [] id = "laminar_internal_flow" ->
         <<KV("geometryType", Str("pipe")), KV("drivingMechanism", Str("velocity-driven")),
           KV("transient", Bool(FALSE))>>
    [] OTHER -> <<>>

\* the raw entries written under a name of canonical key k
Supplied(k) ==
  {i \in 1..Len(RawEntries) : Lookup(PARAM_MAP(schema.id), RawEntries[i][1]) = Str(k)}

Normalized == pc \in {"structure", "contracts"} \/ (pc = "done" /\ Passed(3))

DefaultsApplied ==
  LET d == DefaultsOf(schema.id, canonicalParams)
  IN \A j \in 1..Len(d) :
       /\ Supplied(d[j][1]) = {} => Get(canonicalParams, d[j][1]) = d[j][2]
       /\ \A i \in Supplied(d[j][1]) : Get(canonicalParams, d[j][1]) = RawEntries[i][2]

\* C16: after a successful normalize every optional canonical key the raw
\* input left unset holds the concept's default and a supplied value is kept;
\* the plan with only v0 = 20 and thetaDeg = 45 is accepted with gravity 9.81,
\* initialHeight 0, mass 1 and dragCoefficient 0.
C16_Defaults ==
  /\ Normalized => DefaultsApplied
  /\ Returned /\ scenePlan = ExamplePlan =>
       /\ result.valid
       /\ ResultParameters(result) =
            <<KV("initialSpeed", Num(20)), KV("launchAngleDeg", Num(45)),
              KV("gravity", Rat(981, 100)), KV("initialHeight", Num(0)),
              KV("mass", Num(1)), KV("dragCoefficient", Num(0))>>

\* the example plan is accepted; a plan that supplies gravity keeps it
C16_Witness == Returned /\ scenePlan = ExamplePlan /\ result.valid

C16_WitnessSupplied ==
  /\ Normalized /\ schema.id = "projectile_motion"
  /\ Supplied("gravity") # {} /\ Get(canonicalParams, "gravity") = Num(3)
  /\ Supplied("mass") = {}

(***************************************************************************)
(* C17  a pipe given by its radius or by its diameter                      *)
(***************************************************************************)
PipeApplied == pc = "applied" /\ nz.op = "pipe"

SameHydraulicDiameter(v1, v2) ==
  /\ Get(v1, "hydraulicDiameter") = Get(v2, "hydraulicDiameter")
  /\ Get(v1, "hydraulicDiameter") = Get(v2, "pipeDiameter")
  /\ Get(v1, "hydraulicDiameter") # Undef

\* C17: for a pipe geometry, a plan supplying only pipeRadius r and a plan
\* supplying only pipeDiameter 2r, all other inputs equal, normalize to the
\* same canonical hydraulicDiameter (2r), in normalize and in validateLaminar.
C17_RadiusOrDiameter ==
  PipeApplied =>
    /\ nz.first.thrown = nz.second.thrown
    /\ ~nz.first.thrown => SameHydraulicDiameter(nz.first.value, nz.second.value)
    /\ nz.jsFirst.thrown = nz.jsSecond.thrown
    /\ ~nz.jsFirst.thrown => SameHydraulicDiameter(nz.jsFirst.canonical.o, nz.jsSecond.canonical.o)

\* the pipe of radius 1/20 normalizes, both ways, to hydraulicDiameter 1/10
C17_Witness ==
  /\ PipeApplied /\ ~nz.first.thrown /\ ~nz.second.thrown /\ ~nz.jsFirst.thrown
  /\ Get(nz.first.value, "pipeRadius") = Rat(1, 20)
  /\ Get(nz.second.value, "hydraulicDiameter") = Rat(1, 10)

(***************************************************************************)
(* C18  normalize applied to its own output                                *)
(***************************************************************************)
AgainApplied == pc = "applied" /\ nz.op = "again"

\* C18: for every concept and every raw parameter set x on which normalize
\* succeeds, normalize(normalize(x)) succeeds and equals normalize(x).
C18_NormalizeIdempotent ==
  AgainApplied => ~nz.second.thrown /\ nz.second.value = nz.first.value

\* normalize succeeds on a raw set holding the key "constructor", and throws
\* on its own output
C18_Divergence ==
  /\ AgainApplied /\ ~nz.first.thrown
  /\ Has(DraftParameters.o, "constructor")
  /\ nz.second.thrown /\ nz.second.error.kind = "Unknown parameter"

(***************************************************************************)
(* Several validateScenePlan calls in flight at once                       *)
(*                                                                         *)
(* calls[i] is the frame of the i-th call: the object it was given (0 is   *)
(* scenePlan, j > 0 the canonicalScenePlan the j-th call returned), its    *)
(* position and its locals.  A step of one call runs one stage of the      *)
(* function; steps of different calls interleave freely, which is finer    *)
(* than any scheduling of a synchronous function.                          *)
(***************************************************************************)
MaxCalls == 3

WithParameter(plan, key, value) ==
  Obj(Put(plan.o, "parameters", Obj(Put(Prop(plan, "parameters").o, key, value))))

CallPlans ==
  {ExamplePlan,
   PlanOf("laminar_internal_flow", PressureDrivenParameters),
   BasePlan("fluid_system"),
   BasePlan("driven_oscillator"),
   WithParameter(BasePlan("harmonic_oscillator"), "constructor", Num(3)),
   WithParameter(BasePlan("harmonic_oscillator"), "bogus", Num(3)),
   WithParameter(BasePlan("kepler_two_body_orbit"), "eccentricity", Num(1)),
   WithParameter(BasePlan("laminar_internal_flow"), "reynoldsNumber", Num(3000)),
   PlanOf("bogus", <<>>),
   Null}

InitCalls ==
  /\ scenePlan \in CallPlans
  /\ edits = 0
  /\ pc = "calls"
  /\ schema = Null
  /\ canonicalParams = <<>>
  /\ errors = <<>>
  /\ evaluated = 0
  /\ trace = <<>>
  /\ result = Pending
  /\ escaped = FALSE
  /\ jsResult = Pending
  /\ nz = NotApplied
  /\ calls = <<>>
  /\ wf = NotStarted
  /\ panel = NoPanel

NewCall(arg, inFlight) ==
  [arg |-> arg, inFlight |-> inFlight, pc |-> "toplevel", schema |-> Null,
   canonicalParams |-> <<>>, result |-> Pending, escaped |-> FALSE]

InputOf(arg) == IF arg = 0 THEN scenePlan ELSE calls[arg].result.canonicalScenePlan

Done(c, r) == [c EXCEPT !.pc = "done", !.result = r]

\* for (const contract of schema.contracts) { ... errors.push(violation) }
RECURSIVE PushAll(_, _, _)
PushAll(errs, violations, i) ==
  IF i > Len(violations) THEN errs
  ELSE PushAll(Push(errs, violations[i]), violations, i + 1)

Throws(violations) == \E i \in 1..Len(violations) : violations[i].kind = "TypeError"

\* one stage of validateScenePlan(plan) in frame c
Step(c, plan) ==
  CASE c.pc = "toplevel" ->
         IF NotAnObject(plan)
         THEN Done(c, Invalid(<<Err("scenePlan must be a non-null object", "", "", <<>>)>>))
         ELSE IF TopLevelErrors(plan) # <<>> THEN Done(c, Invalid(TopLevelErrors(plan)))
         ELSE [c EXCEPT !.pc = "lookup"]
    [] c.pc = "lookup" ->
         LET found == getSchema(Prop(plan, "concept").s, Prop(plan, "schemaVersion").s)
         IN IF ~Truthy(found)
            THEN Done(c, Invalid(<<Err("No schema registered", Prop(plan, "concept").s,
                                       Prop(plan, "schemaVersion").s, <<>>)>>))
            ELSE [c EXCEPT !.pc = "normalize", !.schema = found]
    [] c.pc = "normalize" ->
         LET r == CallNormalize(c.schema, Coalesce(Prop(plan, "parameters"), Obj(<<>>)))
         IN IF r.thrown THEN Done(c, Invalid(<<Wrapped(r.error)>>))
            ELSE [c EXCEPT !.pc = "structure", !.canonicalParams = r.value]
    [] c.pc = "structure" ->
         LET structuralErrors == validateStructureOf(c.schema.id, c.canonicalParams)
         IN IF HasErrors(structuralErrors) THEN Done(c, Invalid(structuralErrors))
            ELSE [c EXCEPT !.pc = "contracts"]
    [] c.pc = "contracts" ->
         LET violations == contractsOf(c.schema.id, c.canonicalParams)
         IN IF Throws(violations) THEN [c EXCEPT !.pc = "done", !.escaped = TRUE]
            ELSE Done(c, Finish(PushAll(<<>>, violations, 1),
                                Obj(<<KV("concept", Prop(plan, "concept")),
                                      KV("schemaVersion", Prop(plan, "schemaVersion")),
                                      KV("parameters", Obj(c.canonicalParams))>>)))
    [] OTHER -> c

\* rawParams once normalize has returned the object it filled: a fresh one
\* (const result = {}), rawParams being only read
rawParamsAfterMutant(rawParams, filled) == filled
rawParamsAfter(rawParams, filled) == rawParams

\* the object a call was given, once the call has taken the step from c to next
InputAfter(c, next, plan) ==
  IF c.pc = "normalize" /\ next.pc = "structure" /\ Prop(plan, "parameters").t = "obj"
  THEN Obj(Put(plan.o, "parameters",
               rawParamsAfter(Prop(plan, "parameters"), Obj(next.canonicalParams))))
  ELSE plan

InFlight == Cardinality({i \in 1..Len(calls) : calls[i].pc \notin {"toplevel", "done"}})

\* validateScenePlan(x) is called, x being scenePlan or a returned canonical plan
Call ==
  /\ pc = "calls"
  /\ Len(calls) < MaxCalls
  /\ \E arg \in 0..Len(calls) :
       /\ arg # 0 => calls[arg].pc = "done" /\ calls[arg].result.valid
       /\ calls' = Append(calls, NewCall(arg, InFlight))
  /\ UNCHANGED <<scenePlan, edits, pc, callVars, nz, wf, panel>>

\* one call takes its next step
Advance ==
  /\ pc = "calls"
  /\ \E i \in 1..Len(calls) :
       /\ calls[i].pc # "done"
       /\ \E next \in {Step(calls[i], InputOf(calls[i].arg))} :
            \E written \in {InputAfter(calls[i], next, InputOf(calls[i].arg))} :
              IF calls[i].arg = 0
              THEN scenePlan' = written /\ calls' = [calls EXCEPT ![i] = next]
              ELSE /\ calls' = [calls EXCEPT ![i] = next,
                                            ![calls[i].arg].result.canonicalScenePlan = written]
                   /\ UNCHANGED scenePlan
  /\ UNCHANGED <<edits, pc, callVars, nz, wf, panel>>

NextCalls ==
  \/ Call
  \/ Advance

SpecCalls == InitCalls /\ [][NextCalls]_vars

\* the call run from entry to return with nothing else running
RECURSIVE RunAlone(_, _)
RunAlone(c, plan) == IF c.pc = "done" THEN c ELSE RunAlone(Step(c, plan), plan)

Outcome(c) == <<c.result, c.escaped>>

Finished(i) == i \in 1..Len(calls) /\ calls[i].pc = "done"

(***************************************************************************)
(* C14  idempotence on a returned canonical plan                           *)
(***************************************************************************)
Refed(i) == Finished(i) /\ calls[i].arg # 0

\* C14: for every concept and every raw plan validateScenePlan accepts,
\* validateScenePlan of the returned canonicalScenePlan returns valid:true
\* with a canonical plan identical to the one fed in.
C14_Idempotent ==
  \A i \in 1..Len(calls) :
    Refed(i) =>
      /\ ~calls[i].escaped
      /\ calls[i].result.valid
      /\ calls[i].result.canonicalScenePlan = calls[calls[i].arg].result.canonicalScenePlan

\* an accepted plan whose canonical plan is rejected when fed back
C14_Divergence ==
  \E i \in 1..Len(calls) :
    /\ Refed(i)
    /\ calls[calls[i].arg].arg = 0 /\ calls[calls[i].arg].result.valid
    /\ ~calls[i].result.valid
    /\ calls[i].result.errors[1].kind = "Unknown parameter"

(***************************************************************************)
(* C20  calls are independent                                              *)
(***************************************************************************)
SameAsAlone ==
  \A i \in 1..Len(calls) :
    Finished(i) =>
      Outcome(calls[i]) = Outcome(RunAlone(NewCall(calls[i].arg, 0), InputOf(calls[i].arg)))

InputsUntouched ==
  /\ scenePlan' = scenePlan
  /\ \A j \in 1..Len(calls) : Finished(j) => calls'[j] = calls[j]

MirrorValues == {Num(3), Num(0), Num(-1), PInf, Str("text"), Null}

\* every starting plan, and every starting plan with one name of its alias
\* map set to one value
MirrorPlans ==
  StartingPlans
  \cup {WithParameter(b, PARAM_MAP(Prop(b, "concept").s)[i][1], v) :
          <<b, i, v>> \in {<<b, i, v>> \in StartingPlans \X (1..Len(PARAM_MAP_laminar_internal_flow)) \X MirrorValues :
                            i <= Len(PARAM_MAP(Prop(b, "concept").s))}}

InitMirror ==
  /\ scenePlan \in MirrorPlans
  /\ edits = 0
  /\ pc = "mirror"
  /\ schema = Null
  /\ canonicalParams = <<>>
  /\ errors = <<>>
  /\ evaluated = 0
  /\ trace = <<>>
  /\ result = Pending
  /\ escaped = FALSE
  /\ jsResult = Pending
  /\ nz = NotApplied
  /\ calls = <<>>
  /\ wf = NotStarted
  /\ panel = NoPanel

\* validateScenePlan(scenePlan) in the engine
ValidateInEngine ==
  /\ pc = "mirror"
  /\ \E c \in {RunAlone(NewCall(0, 0), scenePlan)} :
       result' = c.result /\ escaped' = c.escaped
  /\ pc' = "engine"
  /\ UNCHANGED <<scenePlan, edits, schema, canonicalParams, errors, evaluated, trace, jsResult>>
  /\ UNCHANGED harnessVars

\* POST /validate-plan with the same scenePlan
ValidateInMirror ==
  /\ pc = "engine"
  /\ jsResult' = validateScenePlanPayload(scenePlan)
  /\ pc' = "mirrored"
  /\ UNCHANGED <<scenePlan, edits, schema, canonicalParams, errors, evaluated, trace, result, escaped>>
  /\ UNCHANGED harnessVars

NextMirror ==
  \/ ValidateInEngine
  \/ ValidateInMirror

SpecMirror == InitMirror /\ [][NextMirror]_vars

(***************************************************************************)
(* C21  one operation behind the engine and the endpoint                   *)
(***************************************************************************)
Mirrored == pc = "mirrored"

\* C21: validateScenePlanPayload (behind POST /validate-plan and the agent
\* tool) and validateScenePlan are the same operation: for every raw plan
\* they return the same valid flag and, when valid, the same canonical
\* parameters.
C21_SameOperation ==
  Mirrored =>
    /\ ~escaped
    /\ result.valid = jsResult.valid
    /\ result.valid => ResultParameters(result) = ResultParameters(jsResult)

\* a laminar pipe plan carrying thermalConductivity 0 is rejected by the
\* engine and accepted by the endpoint
C21_Divergence ==
  /\ Mirrored
  /\ scenePlan = WithParameter(BasePlan("laminar_internal_flow"), "thermalConductivity", Num(0))
  /\ ~result.valid /\ ~escaped
  /\ jsResult.valid
  /\ Get(ResultParameters(jsResult), "thermalConductivity") = Num(0)

(***************************************************************************)
(* The laminar geometry inputs                                             *)
(*                                                                         *)
(* deriveHydraulicDiameter names, per geometryType, the inputs it derives  *)
(* the hydraulic diameter from.  Each plan below supplies one of them on   *)
(* top of the same valid flow fields, or one the normalizer refuses, and   *)
(* is validated by the engine and by the mirror.                           *)
(***************************************************************************)
GeometrySizes == {Rat(1, 20), Num(1), Num(3)}

FlowFields ==
  <<KV("length", Num(10)), KV("density", Num(1000)), KV("dynamicViscosity", Rat(1, 1000)),
    KV("reynoldsNumber", Num(1500)), KV("meanVelocity", Num(2))>>

\* geometryType with a pair of sizes, or with an explicit hydraulicDiameter
GeometryPair(type, first, second) ==
  {<<KV("geometryType", Str(type)), KV(first, a), KV(second, b)>> : a \in GeometrySizes, b \in GeometrySizes}
GeometryExplicit(type) ==
  {<<KV("geometryType", Str(type)), KV("hydraulicDiameter", a)>> : a \in GeometrySizes}

GeometryInputs ==
  {<<KV(k, a)>> : k \in {"pipeRadius", "pipeDiameter", "hydraulicDiameter"}, a \in GeometrySizes}
  \cup {<<KV("geometryType", Str("pipe")), KV(k, a)>> :
          k \in {"pipeRadius", "pipeDiameter", "hydraulicDiameter"}, a \in GeometrySizes}
  \cup {g \in GeometryPair("annulus", "annulusInnerDiameter", "annulusOuterDiameter") : Lt(g[2][2], g[3][2])}
  \cup GeometryExplicit("annulus")
  \cup GeometryPair("channel", "channelWidth", "channelHeight")
  \cup GeometryExplicit("channel")
  \cup GeometryPair("rectangular_duct", "rectangularWidth", "rectangularHeight")
  \cup GeometryExplicit("rectangular_duct")
  \cup {<<KV("geometryType", Str(type))>> : type \in {"pipe", "annulus", "channel", "rectangular_duct"}}

GeometryPlans == {PlanOf("laminar_internal_flow", g \o FlowFields) : g \in GeometryInputs}

InitGeometry ==
  /\ scenePlan \in GeometryPlans
  /\ edits = 0
  /\ pc = "mirror"
  /\ schema = Null
  /\ canonicalParams = <<>>
  /\ errors = <<>>
  /\ evaluated = 0
  /\ trace = <<>>
  /\ result = Pending
  /\ escaped = FALSE
  /\ jsResult = Pending
  /\ nz = NotApplied
  /\ calls = <<>>
  /\ wf = NotStarted
  /\ panel = NoPanel

SpecGeometry == InitGeometry /\ [][NextMirror]_vars

\* the normalizer derived a hydraulic diameter from the plan's geometry input
GeometryAccepted == ~normalizeOf("laminar_internal_flow", Prop(scenePlan, "parameters")).thrown

\* C28: every geometry input combination the laminar normalizer accepts
\* (pipe: pipeRadius, pipeDiameter or hydraulicDiameter; annulus: inner and
\* outer diameter, or an explicit hydraulicDiameter; channel: width and
\* height, or an explicit hydraulicDiameter; rectangular_duct: width and
\* height), supplied with all other fields valid, is returned valid:true.
C28_GeometryAccepted ==
  (Mirrored /\ GeometryAccepted) => (~escaped /\ result.valid)

\* an annulus given by its hydraulic diameter alone passes the normalizer and
\* is then refused by the annulus contract, in the engine and in the mirror
C28_Divergence ==
  /\ Mirrored
  /\ scenePlan = PlanOf("laminar_internal_flow",
                        <<KV("geometryType", Str("annulus")), KV("hydraulicDiameter", Num(1))>> \o FlowFields)
  /\ GeometryAccepted
  /\ ~escaped
  /\ ~result.valid
  /\ result.errors = <<Msg("Annulus geometry requires both annulusInnerDiameter and annulusOuterDiameter")>>
  /\ ~jsResult.valid

(***************************************************************************)
(* The generate and update workflows                                       *)
(*                                                                         *)
(* src/backend/orchestrator/src/mastra/workflows/generate.ts (planStep)    *)
(* and update.ts (loadParentArtifactStep, classifyUpdateStep,              *)
(* planUpdateStep).  The planner is a language model: each of its replies  *)
(* is drawn from PlannerReplies.  Every validation goes through            *)
(* validatePlanTool, that is through POST /validate-plan and the JS        *)
(* mirror.  One run is followed from its start to the plan it hands to     *)
(* the explain step, or to the exception that ends it.                     *)
(***************************************************************************)
MAX_PLAN_ATTEMPTS == 3
MAX_PLAN_UPDATE_ATTEMPTS == 3

RECURSIVE Spread(_, _)
\* { ...a, ...b }
Spread(a, b) == IF b = <<>> THEN a ELSE Spread(Put(a, b[1][1], b[1][2]), Tail(b))

\* a function value; the control-spec lists are plain data
IsFunction(v) ==
  /\ v.t = "host"
  /\ \A i \in 1..Len(RegisteredConcepts) : v # PARAMETER_CONTROL_SPECS(RegisteredConcepts[i], "v1")

RECURSIVE Json(_)
\* JSON.parse(JSON.stringify(v)): what a value is after the HTTP body carried it
Json(v) ==
  CASE v.t \in {"nan", "inf", "ninf"} -> Null
    [] v.t = "obj" ->
         LET kept == SelectSeq(v.o, LAMBDA kv : kv[2].t # "undef" /\ ~IsFunction(kv[2]))
         IN Obj([i \in 1..Len(kept) |-> <<kept[i][1], Json(kept[i][2])>>])
    [] v.t = "arr" ->
         Arr([i \in 1..Len(v.a) |->
                IF v.a[i].t = "undef" \/ IsFunction(v.a[i]) THEN Null ELSE Json(v.a[i])])
    [] OTHER -> v

\* validatePlanTool.execute(inputData): POST /validate-plan { scenePlan: inputData }
validatePlanTool(inputData) ==
  LET r == validateScenePlanPayload(Json(inputData))
  IN [valid |-> r.valid, errors |-> r.errors, canonicalScenePlan |-> Json(r.canonicalScenePlan)]

\* validation.valid && validation.canonicalScenePlan
AcceptedMutant(validation) == TRUE
Accepted(validation) == validation.valid /\ Truthy(validation.canonicalScenePlan)

\* the plan POST /snippets stores for a snippet that came without one
SnippetArtifactPlan ==
  Obj(<<KV("concept", Str("snippet_artifact")), KV("schemaVersion", Str("artifact_v1")),
        KV("parameters", Obj(<<>>))>>)

\* the scene plans of the stored artifacts an update can name as its parent:
\* plans a generate run returned, and a snippet's placeholder plan
Artifacts ==
  {validatePlanTool(p).canonicalScenePlan :
     p \in {BasePlan("laminar_internal_flow"), ExamplePlan, BasePlan("kepler_two_body_orbit")}}
  \cup {SnippetArtifactPlan}

\* the targetParameters an update request can carry for a parent plan
TargetParameters(parent) ==
  {<<>>} \cup
  CASE Prop(parent, "concept") = Str("laminar_internal_flow") ->
         {<<KV("length", Num(3))>>, <<KV("hydraulicDiameter", Num(3))>>, <<KV("pipeRadius", Num(3))>>,
          <<KV("meanVelocity", Num(3))>>, <<KV("reynoldsNumber", Num(3000))>>,
          <<KV("length", Num(3)), KV("density", Num(500))>>}
    [] Prop(parent, "concept") = Str("projectile_motion") ->
         {<<KV("mass", Num(3))>>, <<KV("mass", Num(0))>>, <<KV("initialSpeed", Num(5))>>}
    [] Prop(parent, "concept") = Str("kepler_two_body_orbit") ->
         {<<KV("gravitationalParameter", Num(3))>>, <<KV("eccentricity", Num(1))>>,
          <<KV("bogus", Num(3))>>}
    [] OTHER -> {<<KV("mass", Num(3))>>}

\* what the planner can answer: prose without JSON, braces that do not parse,
\* or a JSON object
NoJson == [kind |-> "text", json |-> Null]
Malformed == [kind |-> "malformed", json |-> Null]
Candidate(plan) == [kind |-> "json", json |-> plan]
PlannerReplies ==
  {NoJson, Malformed}
  \cup {Candidate(p) : p \in {BasePlan("laminar_internal_flow"), ExamplePlan,
                              WithParameter(BasePlan("kepler_two_body_orbit"), "eccentricity", Num(1)),
                              PlanOf("bogus", <<>>), Obj(<<>>)}}

InitWorkflow ==
  /\ scenePlan = Null
  /\ edits = 0
  /\ pc = "workflow"
  /\ schema = Null
  /\ canonicalParams = <<>>
  /\ errors = <<>>
  /\ evaluated = 0
  /\ trace = <<>>
  /\ result = Pending
  /\ escaped = FALSE
  /\ jsResult = Pending
  /\ nz = NotApplied
  /\ calls = <<>>
  /\ wf = NotStarted
  /\ panel = NoPanel

engineVars == <<scenePlan, edits, pc, callVars, nz, calls>>

\* generateWorkflow starts: planStep enters its loop
StartGenerate ==
  /\ pc = "workflow"
  /\ wf.run = "none"
  /\ wf' = [wf EXCEPT !.run = "generate", !.pc = "planner"]
  /\ UNCHANGED <<engineVars, panel>>

\* updateWorkflow starts: loadParentArtifactStep fetched the parent artifact
\* and its scene plan passed scenePlanSchema
loadParentArtifactStep ==
  /\ pc = "workflow"
  /\ wf.run = "none"
  /\ \E parent \in Artifacts : \E allow \in BOOLEAN : \E target \in TargetParameters(parent) :
       wf' = [wf EXCEPT !.run = "update", !.pc = "classify", !.parentScenePlan = parent,
                        !.allowConceptChange = allow, !.targetParameters = target]
  /\ UNCHANGED <<engineVars, panel>>

\* classifyUpdateStep: an explicit patch is a simple_param_patch; otherwise
\* the classifier's answer, or structural_major when it cannot be parsed
classifyUpdateStep ==
  /\ wf.pc = "classify"
  /\ \E answer \in {"simple_code_only", "simple_param_patch", "structural_major"} :
       wf' = [wf EXCEPT !.updateClassification =
                          IF Len(wf.targetParameters) > 0 THEN "simple_param_patch" ELSE answer,
                        !.pc = "plan-update"]
  /\ UNCHANGED <<engineVars, panel>>

\* patchedPlan of planUpdateStep
patchedPlan(parentScenePlan, targetParameters) ==
  Obj(<<KV("concept", Prop(parentScenePlan, "concept")),
        KV("schemaVersion", Prop(parentScenePlan, "schemaVersion")),
        KV("parameters",
           Obj(Spread(IF Truthy(Prop(parentScenePlan, "parameters"))
                      THEN Prop(parentScenePlan, "parameters").o ELSE <<>>,
                      targetParameters)))>>)

\* the validator answered in this run
Validated(w, validation) ==
  [w EXCEPT !.validatorCalls = @ + 1,
            !.validated = IF validation.valid THEN @ \cup {validation.canonicalScenePlan} ELSE @]

\* planUpdateStep, updateClassification === 'simple_code_only'
CodeOnly ==
  /\ wf.pc = "plan-update"
  /\ wf.updateClassification = "simple_code_only"
  /\ wf' = [wf EXCEPT !.scenePlan = wf.parentScenePlan, !.pc = "returned"]
  /\ UNCHANGED <<engineVars, panel>>

IsParameterPatch(w) ==
  w.updateClassification = "simple_param_patch" /\ Len(w.targetParameters) > 0

\* planUpdateStep, the parameter patch: overlay, validate, return or throw
ParameterPatch ==
  /\ wf.pc = "plan-update"
  /\ wf.updateClassification # "simple_code_only"
  /\ IsParameterPatch(wf)
  /\ \E validation \in {validatePlanTool(patchedPlan(wf.parentScenePlan, wf.targetParameters))} :
       wf' = IF Accepted(validation)
             THEN [Validated(wf, validation) EXCEPT !.scenePlan = validation.canonicalScenePlan,
                                                    !.pc = "returned"]
             ELSE [Validated(wf, validation) EXCEPT !.lastErrors = validation.errors, !.pc = "failed"]
  /\ UNCHANGED <<engineVars, panel>>

\* planUpdateStep falls through to its planner loop
EnterLoop ==
  /\ wf.pc = "plan-update"
  /\ wf.updateClassification # "simple_code_only"
  /\ ~IsParameterPatch(wf)
  /\ wf' = [wf EXCEPT !.pc = "planner"]
  /\ UNCHANGED <<engineVars, panel>>

MaxAttempts(run) == IF run = "generate" THEN MAX_PLAN_ATTEMPTS ELSE MAX_PLAN_UPDATE_ATTEMPTS

\* continue: the next iteration, or the throw behind the loop
NextAttemptMutant(w, lastErrors) ==
  [w EXCEPT !.lastErrors = lastErrors, !.attempt = @ + 1, !.pc = "planner"]
NextAttempt(w, lastErrors) ==
  [w EXCEPT !.lastErrors = lastErrors, !.attempt = @ + 1,
            !.pc = IF w.attempt + 1 < MaxAttempts(w.run) THEN "planner" ELSE "failed"]

\* one planner call of the loop and what the step reads out of the reply
PlannerCall ==
  /\ wf.pc = "planner"
  /\ \E reply \in PlannerReplies :
       wf' = IF reply.kind = "json"
             THEN [wf EXCEPT !.plannerCalls = @ + 1, !.lastCandidate = reply.json, !.pc = "validator"]
             ELSE NextAttempt([wf EXCEPT !.plannerCalls = @ + 1, !.lastCandidate = Str(reply.kind)],
                              <<Msg(IF wf.run = "update" THEN "Planner response did not contain valid JSON"
                                    ELSE IF reply.kind = "text" THEN "Response did not contain valid JSON"
                                    ELSE "Failed to parse JSON from response")>>)
  /\ UNCHANGED <<engineVars, panel>>

\* timedModelCall rethrows what the planner call threw
PlannerThrows ==
  /\ wf.pc = "planner"
  /\ wf' = [wf EXCEPT !.plannerCalls = @ + 1, !.pc = "failed"]
  /\ UNCHANGED <<engineVars, panel>>

SameSchema(a, b) ==
  /\ Prop(a, "concept") = Prop(b, "concept")
  /\ Prop(a, "schemaVersion") = Prop(b, "schemaVersion")

\* the two concept guards of planUpdateStep's loop
ConceptChangeBlockedMutant(w, nextPlan) == FALSE
ConceptChangeBlocked(w, nextPlan) ==
  /\ w.run = "update"
  /\ ~w.allowConceptChange \/ w.updateClassification = "simple_param_patch"
  /\ ~SameSchema(nextPlan, w.parentScenePlan)

\* the validator call of the loop and the decision on its answer
ValidatorCall ==
  /\ wf.pc = "validator"
  /\ \E validation \in {validatePlanTool(wf.lastCandidate)} :
       wf' = IF ~Accepted(validation)
             THEN NextAttempt(Validated(wf, validation),
                              IF Len(validation.errors) > 0 THEN validation.errors
                              ELSE <<Msg("Validation failed with no diagnostics returned")>>)
             ELSE IF ConceptChangeBlocked(wf, validation.canonicalScenePlan)
             THEN NextAttempt(Validated(wf, validation), <<Msg("Concept/schema change is blocked")>>)
             ELSE [Validated(wf, validation) EXCEPT !.scenePlan = validation.canonicalScenePlan,
                                                    !.pc = "returned"]
  /\ UNCHANGED <<engineVars, panel>>

\* the workflow maps the step's scenePlan into the input of the explain step
HandOver ==
  /\ wf.pc = "returned"
  /\ wf' = [wf EXCEPT !.handed = wf.scenePlan, !.pc = "handed"]
  /\ UNCHANGED <<engineVars, panel>>

NextWorkflow ==
  \/ StartGenerate
  \/ loadParentArtifactStep
  \/ classifyUpdateStep
  \/ CodeOnly
  \/ ParameterPatch
  \/ EnterLoop
  \/ PlannerCall
  \/ PlannerThrows
  \/ ValidatorCall
  \/ HandOver

SpecWorkflow == InitWorkflow /\ [][NextWorkflow]_vars

(***************************************************************************)
(* The parameter control specs                                             *)
(***************************************************************************)
ControlSpec(key, min, max, controlClass) ==
  [key |-> key, min |-> min, max |-> max, controlClass |-> controlClass]

\* 2 * Math.PI, to the four decimals of the engine's own tables
TWO_PI == Rat(62832, 10000)

\* the list behind PARAMETER_CONTROL_SPECS["<concept>:v1"]: key, min, max and
\* controlClass of every entry (label, step and unit are display data)
parameterControlSpecs(concept) ==
  CASE concept = "harmonic_oscillator" ->
         <<ControlSpec("amplitude", Rat(1, 20), Num(10), "runtime_tunable"),
           ControlSpec("frequency", Rat(1, 20), Num(20), "runtime_tunable"),
           ControlSpec("phase", Neg(TWO_PI), TWO_PI, "runtime_tunable")>>
    [] concept = "damped_oscillator" ->
         <<ControlSpec("amplitude", Rat(1, 20), Num(10), "runtime_tunable"),
           ControlSpec("frequency", Rat(1, 20), Num(20), "runtime_tunable"),
           ControlSpec("dampingRatio", Num(0), Num(2), "runtime_tunable"),
           ControlSpec("phase", Neg(TWO_PI), TWO_PI, "runtime_tunable")>>
    [] concept = "driven_oscillator" ->
         <<ControlSpec("amplitude", Rat(1, 20), Num(10), "runtime_tunable"),
           ControlSpec("naturalFrequency", Rat(1, 20), Num(20), "runtime_tunable"),
           ControlSpec("driveAmplitude", Rat(1, 100), Num(10), "runtime_tunable"),
           ControlSpec("driveFrequency", Rat(1, 20), Num(20), "runtime_tunable"),
           ControlSpec("dampingRatio", Num(0), Num(2), "runtime_tunable"),
           ControlSpec("phase", Neg(TWO_PI), TWO_PI, "runtime_tunable"),
           ControlSpec("drivePhase", Neg(TWO_PI), TWO_PI, "runtime_tunable")>>
    [] concept = "coupled_oscillators_2mass" ->
         <<ControlSpec("mass", Rat(1, 10), Num(20), "plan_tunable"),
           ControlSpec("anchorStiffness", Rat(1, 10), Num(200), "plan_tunable"),
           ControlSpec("couplingStiffness", Rat(1, 10), Num(200), "plan_tunable"),
           ControlSpec("amplitude1", Rat(1, 100), Num(10), "runtime_tunable"),
           ControlSpec("amplitude2", Rat(1, 100), Num(10), "runtime_tunable"),
           ControlSpec("phaseOffset", Neg(TWO_PI), TWO_PI, "runtime_tunable")>>
    [] concept = "projectile_motion" ->
         <<ControlSpec("initialSpeed", Rat(1, 10), Num(200), "runtime_tunable"),
           ControlSpec("launchAngleDeg", Num(1), Num(89), "runtime_tunable"),
           ControlSpec("gravity", Rat(1, 10), Num(50), "runtime_tunable"),
           ControlSpec("initialHeight", Num(0), Num(200), "runtime_tunable"),
           ControlSpec("mass", Rat(1, 10), Num(100), "plan_tunable"),
           ControlSpec("dragCoefficient", Num(0), Num(2), "runtime_tunable")>>
    [] concept = "uniform_circular_motion" ->
         <<ControlSpec("radius", Rat(1, 20), Num(50), "runtime_tunable"),
           ControlSpec("angularSpeed", Rat(1, 20), Num(50), "runtime_tunable"),
           ControlSpec("phase", Neg(TWO_PI), TWO_PI, "runtime_tunable"),
           ControlSpec("mass", Rat(1, 10), Num(100), "plan_tunable")>>
    [] concept = "kepler_two_body_orbit" ->
         <<ControlSpec("semiMajorAxis", Rat(1, 10), Num(500), "runtime_tunable"),
           ControlSpec("eccentricity", Num(0), Rat(95, 100), "runtime_tunable"),
           ControlSpec("gravitationalParameter", Rat(1, 100), Num(10000), "plan_tunable"),
           ControlSpec("phase", Neg(TWO_PI), TWO_PI, "runtime_tunable"),
           ControlSpec("inclinationDeg", Num(0), Num(180), "runtime_tunable")>>
    [] concept = "laminar_internal_flow" ->
         <<ControlSpec("length", Rat(1, 10), Num(100), "plan_tunable"),
           ControlSpec("hydraulicDiameter", Rat(1, 1000), Num(10), "plan_tunable"),
           ControlSpec("pipeRadius", Rat(1, 2000), Num(5), "plan_tunable"),
           ControlSpec("pipeDiameter", Rat(1, 1000), Num(10), "plan_tunable"),
           ControlSpec("channelWidth", Rat(1, 1000), Num(10), "plan_tunable"),
           ControlSpec("channelHeight", Rat(1, 1000), Num(10), "plan_tunable"),
           ControlSpec("rectangularWidth", Rat(1, 1000), Num(10), "plan_tunable"),
           ControlSpec("rectangularHeight", Rat(1, 1000), Num(10), "plan_tunable"),
           ControlSpec("annulusInnerDiameter", Rat(1, 1000), Num(10), "plan_tunable"),
           ControlSpec("annulusOuterDiameter", Rat(1, 1000), Num(20), "plan_tunable"),
           ControlSpec("density", Rat(1, 10), Num(5000), "plan_tunable"),
           ControlSpec("dynamicViscosity", Rat(1, 1000000), Num(10), "plan_tunable"),
           ControlSpec("meanVelocity", Rat(1, 1000), Num(100), "runtime_tunable"),
           ControlSpec("pressureGradient", Num(-10000), Num(10000), "plan_tunable"),
           ControlSpec("reynoldsNumber", Num(0), Num(2200), "read_only")>>
    [] OTHER -> <<>>

\* scenePlan.parameterControlSpecs as the list it stands for; anything that is
\* not one of the served lists counts as no list
SpecsOf(plan) ==
  LET served == Prop(plan, "parameterControlSpecs")
      named == Prop(plan, "concept")
  IN IF named.t = "str" /\ served.t = "host" /\ served = PARAMETER_CONTROL_SPECS(named.s, "v1")
     THEN parameterControlSpecs(named.s)
     ELSE <<>>

\* the controlClass the plan's specs give a key, "none" without a spec
ControlClassOf(plan, key) ==
  LET specs == SpecsOf(plan)
  IN IF \E i \in 1..Len(specs) : specs[i].key = key
     THEN specs[CHOOSE i \in 1..Len(specs) : specs[i].key = key].controlClass
     ELSE "none"

(***************************************************************************)
(* Claims about the workflows                                              *)
(***************************************************************************)
StepOver == wf.pc \in {"returned", "handed", "failed"}
StepReturned == wf.pc \in {"returned", "handed"}
PatchRun == wf.run = "update" /\ Len(wf.targetParameters) > 0
PatchValidation == validatePlanTool(patchedPlan(wf.parentScenePlan, wf.targetParameters))
PlanParameters(plan) == Prop(plan, "parameters").o

\* C22: planUpdateStep given non-empty targetParameters returns a scene plan
\* only if validating the parent's parameters overlaid with the patch, under
\* the parent's concept and schemaVersion, returned valid:true, and then it
\* returns that validation's canonical plan after exactly one validator call
\* and no planner call; otherwise the step fails, and no plan is returned or
\* handed to the later steps.
C22_PatchRevalidated ==
  (PatchRun /\ StepOver) =>
    /\ wf.plannerCalls = 0
    /\ wf.validatorCalls = 1
    /\ IF PatchValidation.valid
       THEN /\ StepReturned
            /\ wf.scenePlan = PatchValidation.canonicalScenePlan
            /\ SameSchema(wf.scenePlan, wf.parentScenePlan)
            /\ wf.handed \in {Null, wf.scenePlan}
       ELSE /\ wf.pc = "failed"
            /\ wf.scenePlan = Null
            /\ wf.handed = Null

\* an accepted patch: length 3 on the laminar parent, handed on
C22_Witness ==
  /\ PatchRun
  /\ wf.pc = "handed"
  /\ wf.targetParameters = <<KV("length", Num(3))>>
  /\ Get(PlanParameters(wf.handed), "length") = Num(3)
  /\ Get(PlanParameters(wf.parentScenePlan), "length") = Num(10)

\* a refused patch: mass 0 on the projectile parent
C22_WitnessRefused ==
  /\ PatchRun
  /\ wf.pc = "failed"
  /\ wf.targetParameters = <<KV("mass", Num(0))>>
  /\ ~PatchValidation.valid

InLoop == wf.run \in {"generate", "update"} /\ ~PatchRun /\ wf.updateClassification # "simple_code_only"

\* C24: the retry loops are bounded at three attempts.  In one run planStep
\* and planUpdateStep call the planner at most 3 times and the validator at
\* most 3 times (never more often than the planner); a loop that returned
\* did so on the candidate of its last planner call, every earlier attempt
\* having been rejected; after the third rejected attempt the step has
\* failed; and once the step has returned or failed no further call is made.
C24_CallsBounded ==
  /\ wf.plannerCalls <= MaxAttempts(wf.run)
  /\ wf.validatorCalls <= MaxAttempts(wf.run)
  /\ wf.attempt <= MaxAttempts(wf.run)
  /\ InLoop => wf.validatorCalls <= wf.plannerCalls
  /\ (InLoop /\ StepReturned) =>
       /\ wf.plannerCalls = wf.attempt + 1
       /\ wf.scenePlan = validatePlanTool(wf.lastCandidate).canonicalScenePlan
  /\ wf.attempt = MaxAttempts(wf.run) => wf.pc = "failed"

C24_NoCallAfterEnd ==
  StepOver => /\ wf'.plannerCalls = wf.plannerCalls
              /\ wf'.validatorCalls = wf.validatorCalls
              /\ wf'.attempt = wf.attempt
              /\ wf.pc = "failed" => wf' = wf

C24_BoundedRetries == []C24_CallsBounded /\ [][C24_NoCallAfterEnd]_vars

\* three candidates were validated and rejected, and the step failed
C24_Witness ==
  /\ wf.pc = "failed"
  /\ wf.attempt = 3
  /\ wf.plannerCalls = 3
  /\ wf.validatorCalls = 3

\* the second candidate was accepted and returned at once
C24_WitnessReturned ==
  /\ InLoop
  /\ StepReturned
  /\ wf.attempt = 1
  /\ wf.plannerCalls = 2

\* C25: every scene plan planStep or planUpdateStep hands to the later
\* workflow steps is the canonicalScenePlan of a validation call of that run
\* that returned valid:true.
C25_OnlyValidatedForwarded ==
  wf.pc = "handed" => wf.handed \in wf.validated

\* a code-only update of a snippet artifact hands on the snippet's placeholder
\* plan: no validation was called, and the validator refuses that plan
C25_Divergence ==
  /\ wf.pc = "handed"
  /\ wf.run = "update"
  /\ wf.updateClassification = "simple_code_only"
  /\ wf.handed = SnippetArtifactPlan
  /\ wf.validatorCalls = 0
  /\ wf.validated = {}
  /\ ~validatePlanTool(wf.handed).valid

\* the validator accepted a candidate of another concept or version than the parent's
OtherSchemaValidated ==
  /\ wf.run = "update"
  /\ wf.pc = "validator"
  /\ validatePlanTool(wf.lastCandidate).valid
  /\ ~SameSchema(validatePlanTool(wf.lastCandidate).canonicalScenePlan, wf.parentScenePlan)

\* C27: when allowConceptChange is false, every scene plan planUpdateStep
\* returns has the parent's concept and schemaVersion, and a validated
\* candidate of another concept or version counts as a failed attempt: the
\* attempt counter advances and nothing is returned for it.
C27_ReturnedKeepsSchema ==
  (wf.run = "update" /\ ~wf.allowConceptChange /\ StepReturned) =>
    SameSchema(wf.scenePlan, wf.parentScenePlan)

C27_OtherSchemaIsFailedAttempt ==
  (OtherSchemaValidated /\ ~wf.allowConceptChange) =>
    /\ wf'.attempt = wf.attempt + 1
    /\ wf'.pc \in {"planner", "failed"}
    /\ wf'.scenePlan = Null

C27_ConceptPreserved == []C27_ReturnedKeepsSchema /\ [][C27_OtherSchemaIsFailedAttempt]_vars

\* a projectile candidate was validated for a laminar parent and blocked
C27_Witness ==
  /\ wf.run = "update"
  /\ ~wf.allowConceptChange
  /\ Prop(wf.parentScenePlan, "concept") = Str("laminar_internal_flow")
  /\ wf.lastCandidate = ExamplePlan
  /\ wf.lastErrors = <<Msg("Concept/schema change is blocked")>>
  /\ wf.validated # {}
  /\ wf.scenePlan = Null
  /\ wf.attempt = 1

\* C29: when a parameter patch is accepted, every patched key holds the
\* patched value in the returned canonical plan.
C29_PatchedValuesKept ==
  (PatchRun /\ StepReturned) =>
    \A i \in 1..Len(wf.targetParameters) :
      Get(PlanParameters(wf.scenePlan), wf.targetParameters[i][1]) = wf.targetParameters[i][2]

\* hydraulicDiameter 3 patched onto a pipe plan that carries pipeRadius 1/2 is
\* accepted, and the returned plan has hydraulicDiameter 1 again
C29_Divergence ==
  /\ PatchRun
  /\ StepReturned
  /\ Get(PlanParameters(wf.parentScenePlan), "pipeRadius") = Rat(1, 2)
  /\ wf.targetParameters = <<KV("hydraulicDiameter", Num(3))>>
  /\ Get(PlanParameters(wf.scenePlan), "hydraulicDiameter") = Num(1)
  /\ wf.scenePlan = wf.parentScenePlan

\* the keys whose value differs between the parent and the returned plan
ChangedKeys(before, after) ==
  {k \in KeySet(PlanParameters(before)) \cup KeySet(PlanParameters(after)) :
     Get(PlanParameters(before), k) # Get(PlanParameters(after), k)}

\* C23: every parameter whose value an accepted parameter patch changes
\* relative to the parent plan has a control spec of class plan_tunable.
C23_OnlyPlanTunableChanged ==
  (PatchRun /\ StepReturned) =>
    \A k \in ChangedKeys(wf.parentScenePlan, wf.scenePlan) :
      ControlClassOf(wf.parentScenePlan, k) = "plan_tunable"

\* meanVelocity, a runtime_tunable parameter, is changed by an accepted patch
C23_Divergence ==
  /\ PatchRun
  /\ StepReturned
  /\ wf.targetParameters = <<KV("meanVelocity", Num(3))>>
  /\ ControlClassOf(wf.parentScenePlan, "meanVelocity") = "runtime_tunable"
  /\ Get(PlanParameters(wf.parentScenePlan), "meanVelocity") = Num(2)
  /\ Get(PlanParameters(wf.scenePlan), "meanVelocity") = Num(3)

(***************************************************************************)
(* The parameter controls panel                                            *)
(*                                                                         *)
(* src/frontend/components/ParameterControlsPanel.tsx with                 *)
(* services/parameterControls.ts and App.tsx handleCommitParameterPatch.   *)
(* panel.scene is what the rendered scene holds from the SET_PARAMS        *)
(* messages it received, panel.posted the last such message.               *)
(* panel.artifactPlan is the scene plan of the artifact currentSceneHash   *)
(* names, which the update workflow loads as parent.  A commit runs the    *)
(* update workflow above on the patch.                                     *)
(***************************************************************************)
\* slider changes followed in one behaviour
MaxMoves == 2

\* resolveParameterControls(scenePlan)
resolveParameterControls(plan) ==
  LET specs == SpecsOf(plan)
      params == IF Prop(plan, "parameters").t = "obj" THEN Prop(plan, "parameters").o ELSE <<>>
      shown == SelectSeq(specs, LAMBDA spec : /\ spec.controlClass # "locked"
                                               /\ Get(params, spec.key).t \in {"num", "inf", "ninf"})
  IN [i \in 1..Len(shown) |->
        [key |-> shown[i].key, min |-> shown[i].min, max |-> shown[i].max,
         controlClass |-> shown[i].controlClass, value |-> Get(params, shown[i].key)]]

\* Math.abs(next - control.value) > 1e-9, on exact rationals
ExceedsTolerance(next, value) ==
  IF next = value THEN FALSE
  ELSE LET diff == Sub(next, value)
       IN IF diff.t # "num" THEN diff.t \in {"inf", "ninf"}
          ELSE (diff.d \div Abs(diff.n)) < 1000000000

\* createParameterPatch(original, nextValues)
createParameterPatch(original, nextValues) ==
  LET changed == SelectSeq(original, LAMBDA control :
                             /\ Get(nextValues, control.key).t \in {"num", "inf", "ninf"}
                             /\ ExceedsTolerance(Get(nextValues, control.key), control.value))
  IN [i \in 1..Len(changed) |-> KV(changed[i].key, Get(nextValues, changed[i].key))]

\* the entries of the controls of one class, as { [key]: value }
ValuesOf(controls, classes) ==
  LET chosen == SelectSeq(controls, LAMBDA control : control.controlClass \in classes)
  IN [i \in 1..Len(chosen) |-> KV(chosen[i].key, chosen[i].value)]

AllClasses == {"read_only", "runtime_tunable", "plan_tunable"}

Controls == resolveParameterControls(panel.currentScenePlan)

\* planTunablePatch
planTunablePatch ==
  createParameterPatch(SelectSeq(Controls, LAMBDA control : control.controlClass = "plan_tunable"),
                       panel.values)

\* the plans a generate run can have put on screen
PanelPlans ==
  {validatePlanTool(p).canonicalScenePlan :
     p \in {BasePlan(RegisteredConcepts[i]) : i \in 1..Len(RegisteredConcepts)}
           \cup {PlanOf("laminar_internal_flow", PressureDrivenParameters),
                 PlanOf("laminar_internal_flow", AnnulusParameters(Num(1), Num(2)))}}

InitPanel ==
  /\ scenePlan = Null
  /\ edits = 0
  /\ pc = "panel"
  /\ schema = Null
  /\ canonicalParams = <<>>
  /\ errors = <<>>
  /\ evaluated = 0
  /\ trace = <<>>
  /\ result = Pending
  /\ escaped = FALSE
  /\ jsResult = Pending
  /\ nz = NotApplied
  /\ calls = <<>>
  /\ wf = NotStarted
  /\ panel = NoPanel

\* the effect that follows a new scene plan: the sliders take the plan's
\* values and the runtime_tunable ones are posted to the scene
Seeded(p, plan) ==
  LET controls == resolveParameterControls(plan)
      runtimeInitial == ValuesOf(controls, {"runtime_tunable"})
  IN [p EXCEPT !.currentScenePlan = plan,
               !.values = ValuesOf(controls, AllClasses),
               !.scene = IF Len(runtimeInitial) > 0 THEN Spread(@, runtimeInitial) ELSE @,
               !.posted = IF Len(runtimeInitial) > 0 THEN runtimeInitial ELSE @]

\* a generated scene is shown and the panel mounts over it
Mount ==
  /\ pc = "panel"
  /\ ~panel.shown
  /\ \E plan \in PanelPlans :
       panel' = [Seeded(panel, plan) EXCEPT !.shown = TRUE, !.artifactPlan = plan]
  /\ UNCHANGED <<engineVars, wf>>

\* the values a range input of the control can report
SliderValuesMutant(control) == {Neg(control.max)}
SliderValues(control) == {control.min, control.max}

\* whether a slider change is posted to the scene at once
PostsLiveMutant(control) == TRUE
PostsLive(control) == control.controlClass = "runtime_tunable"

\* handleSliderChange(control, next)
handleSliderChange ==
  /\ panel.shown
  /\ panel.moves < MaxMoves
  /\ \E i \in 1..Len(Controls) : \E next \in SliderValues(Controls[i]) :
       /\ Controls[i].controlClass # "read_only"
       /\ panel' = [panel EXCEPT !.values = Put(@, Controls[i].key, next),
                                 !.moves = @ + 1,
                                 !.scene = IF PostsLive(Controls[i])
                                           THEN Put(@, Controls[i].key, next) ELSE @,
                                 !.posted = IF PostsLive(Controls[i])
                                            THEN <<KV(Controls[i].key, next)>> ELSE @]
  /\ UNCHANGED <<engineVars, wf>>

\* reset
reset ==
  /\ panel.shown
  /\ ~panel.isLoading
  /\ panel.values # ValuesOf(Controls, AllClasses)
  /\ \E runtimeResets \in {ValuesOf(Controls, {"runtime_tunable"})} :
       panel' = [panel EXCEPT !.values = ValuesOf(Controls, AllClasses),
                              !.scene = IF Len(runtimeResets) > 0 THEN Spread(@, runtimeResets) ELSE @,
                              !.posted = IF Len(runtimeResets) > 0 THEN runtimeResets ELSE @]
  /\ UNCHANGED <<engineVars, wf>>

\* commit -> handleCommitParameterPatch -> api.updateVisualization: the update
\* workflow starts on the artifact of currentSceneHash with the patch
commit ==
  /\ panel.shown
  /\ ~panel.isLoading
  /\ Len(planTunablePatch) > 0
  /\ wf.run = "none"
  /\ panel' = [panel EXCEPT !.isLoading = TRUE]
  /\ wf' = [NotStarted EXCEPT !.run = "update", !.pc = "classify",
                              !.parentScenePlan = panel.artifactPlan,
                              !.allowConceptChange = FALSE,
                              !.targetParameters = planTunablePatch]
  /\ UNCHANGED engineVars

\* the update came back with a scene plan: it becomes the current plan, and
\* it becomes the plan of the current artifact when code came with it and the
\* artifact was stored
PatchApplied ==
  /\ panel.isLoading
  /\ wf.pc = "handed"
  /\ \E stored \in BOOLEAN :
       panel' = [Seeded(panel, wf.handed) EXCEPT !.isLoading = FALSE,
                                                  !.artifactPlan = IF stored THEN wf.handed ELSE @]
  /\ wf' = NotStarted
  /\ UNCHANGED engineVars

\* the update threw: PARAM_PATCH_FAILED, nothing else changes
PatchFailed ==
  /\ panel.isLoading
  /\ wf.pc \in {"failed", "handed"}
  /\ panel' = [panel EXCEPT !.isLoading = FALSE]
  /\ wf' = NotStarted
  /\ UNCHANGED engineVars

NextPanel ==
  \/ Mount
  \/ handleSliderChange
  \/ reset
  \/ commit
  \/ classifyUpdateStep
  \/ ParameterPatch
  \/ HandOver
  \/ PatchApplied
  \/ PatchFailed

SpecPanel == InitPanel /\ [][NextPanel]_vars

(***************************************************************************)
(* Claims about the panel                                                  *)
(***************************************************************************)
ShownConcept == Prop(panel.currentScenePlan, "concept").s
ShownParameters == PlanParameters(panel.currentScenePlan)
RuntimeOnly(params) ==
  \A i \in 1..Len(params) : ControlClassOf(panel.currentScenePlan, params[i][1]) = "runtime_tunable"

\* C26: a live edit of a plan_tunable parameter never reaches the rendered
\* scene without a validation run.  Every SET_PARAMS message, and so all the
\* scene holds from such messages, names runtime_tunable parameters only;
\* and the scene plan on screen changes only to the plan an update run handed
\* over after exactly one validator call that accepted it.
C26_SceneRuntimeOnly ==
  panel.shown => (RuntimeOnly(panel.posted) /\ RuntimeOnly(panel.scene))

C26_PlanChangesThroughValidation ==
  (panel.shown /\ panel'.currentScenePlan # panel.currentScenePlan) =>
    /\ wf.pc = "handed"
    /\ Len(wf.targetParameters) > 0
    /\ wf.validatorCalls = 1
    /\ wf.handed \in wf.validated
    /\ panel'.currentScenePlan = wf.handed

C26_LiveEditsValidated == []C26_SceneRuntimeOnly /\ [][C26_PlanChangesThroughValidation]_vars

\* plan_tunable sliders were moved: the scene was seeded and has none of them
C26_Witness ==
  /\ panel.shown
  /\ Len(planTunablePatch) > 0
  /\ Len(panel.scene) > 0
  /\ \A i \in 1..Len(planTunablePatch) : ~Has(panel.scene, planTunablePatch[i][1])

\* a committed patch came back validated and is on screen
C26_WitnessCommitted ==
  /\ panel.shown
  /\ ~panel.isLoading
  /\ panel.currentScenePlan # panel.artifactPlan

\* a committed patch was refused by the validator
C26_WitnessRefused ==
  /\ panel.isLoading
  /\ wf.pc = "failed"

\* validateScenePlan accepts the plan, and so does the mirror
EngineAccepts(plan) ==
  LET c == RunAlone(NewCall(0, 0), plan) IN ~c.escaped /\ c.result.valid
MirrorAccepts(plan) == validateScenePlanPayload(plan).valid

\* the parameters the scene runs with: the plan's, overridden by SET_PARAMS
LivePlan == PlanOf(ShownConcept, Spread(ShownParameters, panel.scene))
ShownPlan == PlanOf(ShownConcept, ShownParameters)

\* C30: bypassing validation for runtime_tunable edits is safe: whatever
\* values in the specs' [min, max] ranges the runtime_tunable sliders of an
\* accepted plan were set to, the plan with those values in place is still
\* accepted by validateScenePlan (and by the mirror that accepted the plan).
C30_RuntimeEditsStayValid ==
  (panel.shown /\ LivePlan # ShownPlan) =>
    /\ EngineAccepts(LivePlan) \/ ~EngineAccepts(ShownPlan)
    /\ MirrorAccepts(LivePlan) \/ ~MirrorAccepts(ShownPlan)

\* two runtime_tunable sliders at ends of their ranges, and the plan with
\* both values is accepted
C30_Witness ==
  /\ panel.shown
  /\ Cardinality({i \in 1..Len(panel.scene) : panel.scene[i][2] # Get(ShownParameters, panel.scene[i][1])}) = 2
  /\ EngineAccepts(ShownPlan)
  /\ EngineAccepts(LivePlan)

====
